---- MODULE Spec2Model ----
(***************************************************************************)
(* A model of src/invoice_automation.py (StripeCalendarInvoicer): one run  *)
(* of run_automation over a calendar snapshot, a customer roster and a     *)
(* Stripe billing store: reconciliation, the interactive session, synopsis *)
(* entry, confirmation and emission of draft invoices.                     *)
(*                                                                         *)
(* Units: durations are hundredths of an hour, rates and minor units are   *)
(* cents, a time of day is a record [h, m].                                *)
(***************************************************************************)
EXTENDS Integers, Sequences, FiniteSets, TLC

VARIABLES
    phase,                 \* position of run_automation / the prompt it waits at
    include_all_meetings,  \* the --include-all-meetings argument
    events,                \* the calendar snapshot get_calendar_events returns
    cmd_limit,             \* bound on cmds for this behaviour
    lookup_down,           \* customers whose stripe.Invoice.list call raises
    store,                 \* Stripe: the invoices, in the order Invoice.list gives
    customers_with_meetings, \* ordered dict customer_id -> {customer, meetings}
    unassociated_meetings, \* list of unassociated meetings
    meeting_map,           \* display number -> <<customer_id, index>>
    unassociated_map,      \* U-number -> index into unassociated_meetings
    edit_target,           \* the meeting edit_meeting_details is working on
    emit_cursor,           \* Step 6: next entry of customers_with_meetings
    created_invoices,      \* Step 6: created_invoices
    calls,                 \* Stripe write calls made (Invoice / InvoiceItem create)
    answered,              \* the last answer to "Create n draft invoices? (y/n)"
    rate_calls,            \* stripe.Customer.modify calls made by setrate
    cmds,                  \* session commands so far that count against cmd_limit
    run,                   \* which run of the program this is
    prev_emitted,          \* <<customer_id, meeting id>> emitted by earlier runs
    arg,                   \* argument of a function applied on its own
    ret                    \* its result

vars == <<phase, include_all_meetings, events, cmd_limit, lookup_down, store,
          customers_with_meetings, unassociated_meetings, meeting_map,
          unassociated_map, edit_target, emit_cursor, created_invoices,
          calls, answered, rate_calls, cmds, run, prev_emitted, arg, ret>>

-----------------------------------------------------------------------------
(* Bounds of the model *)

\* state-changing commands explored per interactive session
MaxCmds == 2
\* invoices in the billing store before the run
MaxStoreLen == 2
\* runs of the program chained in SpecRuns
MaxRuns == 2
\* state-changing commands per session when runs are chained
MaxCmdsRuns == 1
\* commands read per session when the command lines are kept
MaxCmdsLogged == 2
\* customers in the roster and events in the snapshot when the matching of
\* events to customers is checked on its own
MaxRoster == 2
MaxEvents == 2
\* the small durations (hundredths of an hour) and rates (cents) for which
\* the amount of a line item is computed on its own
MaxAmountDuration == 12
MaxAmountRate == 12
\* the largest hour typed in 24-hour and in 12-hour form when the parsers
\* are checked on their own
MaxClockHour == 24
MaxHour12 == 13
\* customers held by Stripe when the paging of the roster is checked on its
\* own, and the customers of a page (the code asks for pages of 100)
MaxStripeCustomers == 4
PageLimit == 2
\* answers read at the prompt that asks whether to remove the expired token
MaxAuthPrompts == 3

-----------------------------------------------------------------------------
(* Optional values (Python None) and operator text *)

None == <<>>
Some(x) == <<x>>
IsSet(o) == o # None
Val(o) == o[1]

\* A line of operator text, by what the parsers make of it.
Empty == [kind |-> "empty", a |-> 0, b |-> 0]          \* "" or whitespace
Original == [kind |-> "original", a |-> 0, b |-> 0]    \* "original"
Junk == [kind |-> "junk", a |-> 0, b |-> 0]            \* "abc"
Num(v) == [kind |-> "num", a |-> v, b |-> 0]           \* decimal text, v hundredths
Clock(h, m) == [kind |-> "clock", a |-> h, b |-> m]    \* "h:mm" (24-hour form)
Blank == [kind |-> "blank", a |-> 0, b |-> 0]          \* "   "
NanText == [kind |-> "nan", a |-> 0, b |-> 0]          \* "nan", "NaN"
InfText == [kind |-> "inf", a |-> 0, b |-> 0]          \* "inf", "infinity"
\* digits with the letter h between them, "1h5": a is the number the digits
\* spell once the letter is taken out
SplitByH(v) == [kind |-> "split", a |-> v, b |-> 0]
\* decimal text with what may stand around it: "$" in front, thousands
\* separators, a unit behind, blanks at both ends
Decorated(v, prefix, commas, suffix, padded) ==
    [kind |-> "decimal", a |-> v, b |-> 0, prefix |-> prefix,
     commas |-> commas, suffix |-> suffix, padded |-> padded]
\* "h:mm PM", "h:mmPM", in upper or lower case
Clock12(h, m, pm, spaced, upper) ==
    [kind |-> "clock12", a |-> h, b |-> m, pm |-> pm, spaced |-> spaced,
     upper |-> upper]
\* "h PM", "hPM"
Hour12Text(h, pm, spaced, upper) ==
    [kind |-> "hour12", a |-> h, b |-> 0, pm |-> pm, spaced |-> spaced,
     upper |-> upper]
\* "h:mm:ss"
ClockSeconds(h, m) == [kind |-> "seconds", a |-> h, b |-> m]

\* the text is a decimal number and blanks, nothing else
IsPlain(text) ==
    \/ text.kind = "num"
    \/ /\ text.kind = "decimal"
       /\ text.prefix = ""
       /\ ~text.commas
       /\ text.suffix = ""

\* what float() returns: a number v (in hundredths), nan or inf
Float(v) == [tag |-> "ok", val |-> v, is |-> "finite"]
FloatNaN == [tag |-> "ok", val |-> 0, is |-> "nan"]
FloatInf == [tag |-> "ok", val |-> 0, is |-> "inf"]

Ok(v) == [tag |-> "ok", val |-> v]
Keep == [tag |-> "none", val |-> 0]
Raise(msg) == [tag |-> "error", val |-> msg]

Min(a, b) == IF a < b THEN a ELSE b
SeqToSet(s) == {s[i] : i \in DOMAIN s}

-----------------------------------------------------------------------------
(* The run's inputs: roster, calendar snapshot, configuration *)

\* --hourly-rate of the modelled invocation, in cents ($150.00)
DefaultHourlyRate == 15000

\* customers as get_stripe_customers returns them
CustA == [id |-> "cus_A", email |-> "alice@x.com", name |-> "Alice",
          metadata |-> Some(Num(20000))]
CustB == [id |-> "cus_B", email |-> "bob@x.com", name |-> "Bob",
          metadata |-> None]
Roster == <<CustA, CustB>>

\* The text of a timestamp. '2025-01-15T14:00:00-05:00', the dateTime of a
\* calendar event, is Stamp(15, 840): the day of January 2025 and the minute
\* of the day, with a UTC offset (the same in every timestamp of the model).
Stamp(d, m) == [day |-> d, min |-> m, form |-> "datetime"]
\* '2025-01-15T14:00:00': no UTC offset
NaiveStamp(d, m) == [day |-> d, min |-> m, form |-> "naive"]
\* '2025-01-15', the date of an all-day event
DateStamp(d) == [day |-> d, min |-> 0, form |-> "date"]
\* text that is no timestamp: head says what its first ten characters spell,
\* the day d for '2025-01-d' and 0 - k for the k-th other text; tail numbers
\* the characters after the tenth, 0 for none
BadStamp(head, tail) == [day |-> head, min |-> tail, form |-> "malformed"]

\* calendar events: alice alone, alice and bob, nobody of the roster
Event1 == [summary |-> "Strategy Session",
           start |-> Some(Stamp(15, 840)),
           end |-> Some(Stamp(15, 900)),
           attendees |-> <<"Alice@X.com">>,
           organizer |-> Some("me@me.com"),
           description |-> <<>>]
Event2 == [summary |-> "Workshop",
           start |-> Some(Stamp(15, 600)),
           end |-> Some(Stamp(15, 650)),
           attendees |-> <<"alice@x.com", "bob@x.com">>,
           organizer |-> None,
           description |-> <<>>]
Event3 == [summary |-> "Intro Call",
           start |-> Some(Stamp(16, 600)),
           end |-> Some(Stamp(16, 690)),
           attendees |-> <<"carol@y.com">>,
           organizer |-> None,
           description |-> <<>>]
Event4 == [summary |-> "Review",
           start |-> Some(Stamp(16, 780)),
           end |-> Some(Stamp(16, 840)),
           attendees |-> <<"bob@x.com">>,
           organizer |-> None,
           description |-> <<>>]

\* str.lower() on the e-mail strings of the model
Lower(s) ==
    IF s = "Alice@X.com" THEN "alice@x.com"
    ELSE IF s = "Bob@X.com" THEN "bob@x.com"
    ELSE IF s = "Alice" THEN "alice"
    ELSE IF s = "Bob" THEN "bob"
    ELSE IF s = "Ann" THEN "ann"
    ELSE IF s = "Unknown" THEN "unknown"
    ELSE s

\* `s in t` for the lower-cased strings of the model: s is t or a part of t
Inside(s, t) ==
    \/ s = t
    \/ <<s, t>> \in {<<"alice", "alice@x.com">>, <<"bob", "bob@x.com">>,
                     <<"ann", "ann@x.com">>, <<"ann", "joann@x.com">>,
                     <<"ann@x.com", "joann@x.com">>}

-----------------------------------------------------------------------------
(* generate_meeting_id: the md5 digest prefix of "email|start|summary",     *)
(* taken as collision-free on the model's triples                          *)

generate_meeting_id(customer_email, start_time, summary) ==
    <<customer_email, start_time, summary>>

-----------------------------------------------------------------------------
(* Line-item descriptions: the text is a sequence of tokens; the token     *)
(* [ID:<id>] is the only place the characters of an id occur               *)

Tok(k, v) == [kind |-> k, v |-> v]
IdTag(mid) == Tok("id", mid)
\* `meeting_id in (item.description or "")`
DescriptionContains(description, meeting_id) ==
    \E i \in DOMAIN description :
        /\ description[i].kind = "id"
        /\ description[i].v = meeting_id

-----------------------------------------------------------------------------
(* Invoice-status resolver *)

\* stripe.Invoice.list(customer=..., limit=100)
\* characters a "filler" token stands for, and the reach of the proximity
\* test of find_customer_mentions_in_text (line 308)
FillerWidth == 100
MentionReach == 100

InvoiceListLimit == 100

RECURSIVE FilterCustomer(_, _)
FilterCustomer(invoices, customer_id) ==
    IF invoices = <<>> THEN <<>>
    ELSE IF Head(invoices).customer = customer_id
         THEN <<Head(invoices)>> \o FilterCustomer(Tail(invoices), customer_id)
         ELSE FilterCustomer(Tail(invoices), customer_id)

\* get_customer_invoices: [] when the call raises
\* a lookup that returns nothing for every customer once one lookup fails
get_customer_invoices_all_fail(st, down, customer_id) ==
    IF down # {} THEN <<>>
    ELSE LET all == FilterCustomer(st, customer_id)
         IN SubSeq(all, 1, Min(Len(all), InvoiceListLimit))

get_customer_invoices(st, down, customer_id) ==
    IF customer_id \in down THEN <<>>
    ELSE LET all == FilterCustomer(st, customer_id)
         IN SubSeq(all, 1, Min(Len(all), InvoiceListLimit))

\* the statuses the resolver reports on
\* a resolver that takes every state other than draft for a post-draft state
StatusOfMatchAnyState(status) ==
    IF status = "draft" THEN "drafted" ELSE "sent"

StatusOfMatch(status) ==
    IF status = "draft" THEN "drafted"
    ELSE IF status \in {"open", "paid", "uncollectible"} THEN "sent"
    ELSE "continue"

\* the inner loop over invoice.lines.data, from item k on
RECURSIVE ScanItems(_, _, _)
ScanItems(invoice, meeting_id, k) ==
    IF k > Len(invoice.lines) THEN "continue"
    ELSE IF /\ DescriptionContains(invoice.lines[k], meeting_id)
            /\ StatusOfMatch(invoice.status) # "continue"
         THEN StatusOfMatch(invoice.status)
         ELSE ScanItems(invoice, meeting_id, k + 1)

\* the outer loop over the invoices
RECURSIVE ScanInvoices(_, _)
ScanInvoices(invoices, meeting_id) ==
    IF invoices = <<>> THEN "not_invoiced"
    ELSE LET r == ScanItems(Head(invoices), meeting_id, 1)
         IN IF r # "continue" THEN r
            ELSE ScanInvoices(Tail(invoices), meeting_id)

check_meeting_invoice_status(st, down, customer_id, meeting_id) ==
    ScanInvoices(get_customer_invoices(st, down, customer_id), meeting_id)

-----------------------------------------------------------------------------
(* Reconciliation: find_customers_with_meetings *)

\* dateutil's parser.parse: a datetime, aware when the text has a UTC
\* offset, midnight for a date; ParserError for text that is no timestamp
parse(text) ==
    IF text.form = "malformed" THEN Raise("ParserError")
    ELSE Ok([day |-> text.day, min |-> text.min,
             aware |-> text.form = "datetime"])

\* a calculation that falls back to no time at all
calculate_meeting_duration_zero(start_time, end_time) ==
    LET start == parse(start_time)
        end == parse(end_time)
    IN IF start.tag = "error" \/ end.tag = "error" THEN 0
       ELSE IF start.val.aware # end.val.aware THEN 0
       ELSE (10 * ((end.val.day - start.val.day) * 1440
                   + end.val.min - start.val.min) + 3) \div 6

\* round((end - start).total_seconds() / 3600, 2), in hundredths of an hour;
\* 1.0 when a parse raises, or the subtraction does (TypeError, an aware and
\* a naive datetime)
calculate_meeting_duration(start_time, end_time) ==
    LET start == parse(start_time)
        end == parse(end_time)
    IN IF start.tag = "error" \/ end.tag = "error" THEN 100
       ELSE IF start.val.aware # end.val.aware THEN 100
       ELSE LET minutes == (end.val.day - start.val.day) * 1440
                           + end.val.min - start.val.min
            IN (10 * minutes + 3) \div 6

\* strftime('%I:%M %p') of a time of day
FormatTime12(t) ==
    [hh |-> IF t.h % 12 = 0 THEN 12 ELSE t.h % 12,
     mm |-> t.m,
     p |-> IF t.h < 12 THEN "AM" ELSE "PM"]

TimeOfStamp(s) == [h |-> s.min \div 60, m |-> s.min % 60]

\* the placeholder "Unknown time"
UnknownTime == [hh |-> 0, mm |-> 0, p |-> "Unknown time"]

\* lines 437-443: strftime of the parsed start, or start_time[:10] and the
\* placeholder when the parse raises; a date string is the day it spells
meeting_date(start_time) ==
    IF parse(start_time).tag = "error" THEN start_time.day
    ELSE parse(start_time).val.day
meeting_time(start_time) ==
    IF parse(start_time).tag = "error" THEN UnknownTime
    ELSE FormatTime12(TimeOfStamp(parse(start_time).val))

\* an attendee without an 'email' key is the string ""
AttendeeEmails(event) ==
    {Lower(event.attendees[i]) :
        i \in {j \in DOMAIN event.attendees : event.attendees[j] # ""}}
OrganizerEmails(event) ==
    IF IsSet(event.organizer) /\ Val(event.organizer) # ""
    THEN {Lower(Val(event.organizer))} ELSE {}

\* A description is a sequence of tokens: an e-mail address ("email"), a
\* word ("word") or a stretch of a hundred characters of other text
\* ("filler"); every other token is shorter than a character of the scale.

\* extract_emails_from_text: the tokens of the text that match the e-mail pattern
extract_emails_from_text(text) ==
    {Lower(text[i].v) : i \in {j \in DOMAIN text : text[j].kind = "email"}}

\* the offset at which token i of the text starts
RECURSIVE OffsetOf(_, _)
OffsetOf(text, i) ==
    IF i <= 1 THEN 0
    ELSE OffsetOf(text, i - 1)
         + (IF text[i - 1].kind = "filler" THEN FillerWidth ELSE 1)

\* the tokens of the text in which the string occurs
TokensWith(text, str) ==
    {i \in DOMAIN text : text[i].kind # "filler" /\ Inside(str, Lower(text[i].v))}

\* text_lower.find(str), for a string that occurs in the text
FindIn(text, str) ==
    LET I == TokensWith(text, str)
    IN OffsetOf(text, CHOOSE i \in I : \A j \in I : i <= j)

Abs(x) == IF x < 0 THEN 0 - x ELSE x

\* find_customer_mentions_in_text: the e-mails of the customers whose name
\* and e-mail both occur in the text, less than 100 characters apart
find_customer_mentions_in_text(text, customers) ==
    {Lower(customers[i].email) :
        i \in {j \in DOMAIN customers :
                 LET customer_name == Lower(customers[j].name)
                     customer_email == Lower(customers[j].email)
                 IN /\ customer_name \notin {"", "unknown"}
                    /\ TokensWith(text, customer_name) # {}
                    /\ TokensWith(text, customer_email) # {}
                    /\ Abs(FindIn(text, customer_name)
                           - FindIn(text, customer_email)) < MentionReach}}

\* the e-mails the two description channels find
DescriptionEmails(event, customers) ==
    extract_emails_from_text(event.description)
    \cup find_customer_mentions_in_text(event.description, customers)

\* participant_emails of one event
ParticipantEmails(event, customers) ==
    LET listed == AttendeeEmails(event) \cup OrganizerEmails(event)
    IN listed \cup (DescriptionEmails(event, customers) \ listed)

\* a provenance map in which the description channels overwrite the tag
DetectionSourceLastWins(event, email, customers) ==
    IF email \in DescriptionEmails(event, customers) THEN "description"
    ELSE IF email \in OrganizerEmails(event) THEN "organizer"
    ELSE IF email \in AttendeeEmails(event) THEN "attendee"
    ELSE "unknown"

\* detection_sources.get(email, 'unknown'): the organizer loop runs after the
\* attendee loop, the description loop skips the e-mails already found
DetectionSource(event, email, customers) ==
    IF email \in OrganizerEmails(event) THEN "organizer"
    ELSE IF email \in AttendeeEmails(event) THEN "attendee"
    ELSE IF email \in DescriptionEmails(event, customers) THEN "description"
    ELSE "unknown"

\* a lookup in which the first customer with the e-mail is kept
CustomerByEmailFirst(customers, email) ==
    LET I == {i \in DOMAIN customers : customers[i].email = email}
    IN customers[CHOOSE i \in I : \A j \in I : i <= j]

\* customer_by_email: a later customer with the same e-mail replaces an earlier
HasCustomer(customers, email) == \E i \in DOMAIN customers : customers[i].email = email
CustomerByEmail(customers, email) ==
    LET I == {i \in DOMAIN customers : customers[i].email = email}
    IN customers[CHOOSE i \in I : \A j \in I : j <= i]

\* position of customer_id in the ordered dict, 0 when it is no key
CwmIndex(cwm, customer_id) ==
    IF \E i \in DOMAIN cwm : cwm[i].customer_id = customer_id
    THEN CHOOSE i \in DOMAIN cwm : cwm[i].customer_id = customer_id
    ELSE 0

\* customers_with_meetings[customer_id]['meetings'].append(meeting)
\* an append that opens a new entry even for a customer that has one
AppendMeetingNewEntry(cwm, customer, meeting) ==
    Append(cwm, [customer_id |-> customer.id, customer |-> customer,
                 meetings |-> <<meeting>>])

AppendMeeting(cwm, customer, meeting) ==
    LET i == CwmIndex(cwm, customer.id)
    IN IF i = 0
       THEN Append(cwm, [customer_id |-> customer.id, customer |-> customer,
                         meetings |-> <<meeting>>])
       ELSE [cwm EXCEPT ![i].meetings = Append(@, meeting)]

\* selected of a fresh meeting_info
\* a construction that selects every Meeting whatever its status
DefaultSelectedAlways(invoice_status) == TRUE

DefaultSelected(invoice_status) == invoice_status = "not_invoiced"

\* meeting_info of one (event, matched e-mail)
MeetingInfo(event, email, customer, st, down, customers) ==
    LET start_time == Val(event.start)
        meeting_id == generate_meeting_id(email, start_time, event.summary)
        invoice_status ==
            check_meeting_invoice_status(st, down, customer.id, meeting_id)
    IN [id |-> meeting_id,
        summary |-> event.summary,
        date |-> meeting_date(start_time),
        time |-> meeting_time(start_time),
        duration |-> calculate_meeting_duration(start_time, Val(event.end)),
        start_time |-> start_time,
        end_time |-> Val(event.end),
        invoice_status |-> invoice_status,
        selected |-> DefaultSelected(invoice_status),
        synopsis |-> "",
        edited_start_time |-> None,
        edited_duration |-> None,
        custom_rate |-> None,
        is_edited |-> FALSE,
        detection_source |-> DetectionSource(event, email, customers),
        is_manually_assigned |-> FALSE]

\* an unassociated meeting that starts out selected
UnassociatedInfoSelected(event, order) ==
    [id |-> generate_meeting_id("unassociated", Val(event.start), event.summary),
     summary |-> event.summary,
     date |-> meeting_date(Val(event.start)),
     time |-> meeting_time(Val(event.start)),
     duration |-> calculate_meeting_duration(Val(event.start), Val(event.end)),
     start_time |-> Val(event.start),
     end_time |-> Val(event.end),
     attendees |-> order,
     description |-> event.description,
     selected |-> TRUE,
     synopsis |-> "",
     assigned_customer |-> None,
     is_manually_assigned |-> FALSE]

UnassociatedInfo(event, order) ==
    LET start_time == Val(event.start)
    IN [id |-> generate_meeting_id("unassociated", start_time, event.summary),
        summary |-> event.summary,
        date |-> meeting_date(start_time),
        time |-> meeting_time(start_time),
        duration |-> calculate_meeting_duration(start_time, Val(event.end)),
        start_time |-> start_time,
        end_time |-> Val(event.end),
        attendees |-> order,
        description |-> event.description,
        selected |-> FALSE,
        synopsis |-> "",
        assigned_customer |-> None,
        is_manually_assigned |-> FALSE]

\* `for email in participant_emails`, in the order the set is iterated
RECURSIVE MatchEmails(_, _, _, _, _, _)
MatchEmails(cwm, event, order, customers, st, down) ==
    IF order = <<>> THEN cwm
    ELSE LET email == Head(order)
             next == IF HasCustomer(customers, email)
                     THEN AppendMeeting(cwm, CustomerByEmail(customers, email),
                              MeetingInfo(event, email,
                                  CustomerByEmail(customers, email), st, down,
                                  customers))
                     ELSE cwm
         IN MatchEmails(next, event, Tail(order), customers, st, down)

\* `for event in events`, from event k on; acc is the pair of results so far
RECURSIVE MatchEvents(_, _, _, _, _, _, _, _)
MatchEvents(acc, evs, k, orders, customers, include_all, st, down) ==
    IF k > Len(evs) THEN acc
    ELSE LET event == evs[k]
             customer_found ==
                 \E e \in ParticipantEmails(event, customers) :
                     HasCustomer(customers, e)
             step ==
                 IF ~IsSet(event.start) \/ ~IsSet(event.end) THEN acc
                 ELSE [cwm |-> MatchEmails(acc.cwm, event, orders[k], customers,
                                           st, down),
                       un |-> IF ~customer_found /\ include_all
                              THEN Append(acc.un, UnassociatedInfo(event, orders[k]))
                              ELSE acc.un]
         IN MatchEvents(step, evs, k + 1, orders, customers, include_all,
                        st, down)

find_customers_with_meetings(customers, evs, include_all, orders, st, down) ==
    MatchEvents([cwm |-> <<>>, un |-> <<>>], evs, 1, orders, customers,
                include_all, st, down)

\* the sequences that list the set S once each: the orders a set can iterate in
Orderings(S) ==
    {s \in [1..Cardinality(S) -> S] : \A i, j \in DOMAIN s : i # j => s[i] # s[j]}

IterationOrders(evs, customers) ==
    {o \in [DOMAIN evs -> UNION {Orderings(ParticipantEmails(evs[k], customers)) :
                                       k \in DOMAIN evs}] :
        \A k \in DOMAIN evs :
            o[k] \in Orderings(ParticipantEmails(evs[k], customers))}

-----------------------------------------------------------------------------
(* display_meeting_list: the two index maps it returns *)

RECURSIVE BuildMeetingMap(_, _)
BuildMeetingMap(cwm, k) ==
    IF k > Len(cwm) THEN <<>>
    ELSE [i \in 1..Len(cwm[k].meetings) |-> <<cwm[k].customer_id, i>>]
         \o BuildMeetingMap(cwm, k + 1)

display_meeting_list(cwm, un) ==
    [meeting_map |-> BuildMeetingMap(cwm, 1),
     unassociated_map |-> [i \in 1..Len(un) |-> i]]

-----------------------------------------------------------------------------
(* Parsers of operator text *)

\* the hour of a 12-hour clock reading taken as it is, plus 12 after noon
Hour12Naive(h, pm) == IF pm THEN h + 12 ELSE h

\* strptime: the hour of the day of %I and %p
Hour12(h, pm) == (h % 12) + (IF pm THEN 12 ELSE 0)

\* the formats parse_time_input tries, in its order (lines 213-220)
TimeFormats == <<"%I:%M %p", "%I:%M%p", "%H:%M", "%I %p", "%I%p", "%H">>

\* datetime.strptime(time_str, fmt).time(): %I takes 1..12, %H 0..23, %M
\* 0..59, %p AM or PM in any case, a blank of the format one blank or more
strptime(text, fmt) ==
    IF /\ fmt \in {"%I:%M %p", "%I:%M%p"}
       /\ text.kind = "clock12"
       /\ text.spaced = (fmt = "%I:%M %p")
       /\ text.a \in 1..12
       /\ text.b \in 0..59
    THEN Ok([h |-> Hour12(text.a, text.pm), m |-> text.b])
    ELSE IF /\ fmt = "%H:%M"
            /\ text.kind = "clock"
            /\ text.a \in 0..23
            /\ text.b \in 0..59
    THEN Ok([h |-> text.a, m |-> text.b])
    ELSE IF /\ fmt \in {"%I %p", "%I%p"}
            /\ text.kind = "hour12"
            /\ text.spaced = (fmt = "%I %p")
            /\ text.a \in 1..12
    THEN Ok([h |-> Hour12(text.a, text.pm), m |-> 0])
    ELSE IF /\ fmt = "%H"
            /\ IsPlain(text)
            /\ text.a % 100 = 0
            /\ (text.a \div 100) \in 0..23
    THEN Ok([h |-> text.a \div 100, m |-> 0])
    ELSE Raise("does not match format")

\* the loop over the formats, from format k on
RECURSIVE TryFormats(_, _)
TryFormats(text, k) ==
    IF k > Len(TimeFormats) THEN Raise("Unable to parse time")
    ELSE IF strptime(text, TimeFormats[k]).tag = "ok"
         THEN strptime(text, TimeFormats[k])
         ELSE TryFormats(text, k + 1)

\* parse_time_input
parse_time_input(text) ==
    IF text.kind \in {"empty", "blank"} THEN Keep
    ELSE TryFormats(text, 1)

\* the units parse_duration_input takes out of the text (line 237)
DurationSuffixes == {"hours", "hour", "hr", "h"}

\* float(duration_str) after the strip, the lower() and the replaces: the
\* number in hundredths, NaN, "inf", or "error" when float() raises
DurationFloat(text) ==
    IF text.kind \in {"num", "split"} THEN Float(text.a)
    ELSE IF /\ text.kind = "decimal"
            /\ text.prefix = ""
            /\ ~text.commas
            /\ text.suffix \in DurationSuffixes \cup {""}
    THEN Float(text.a)
    ELSE IF text.kind = "nan" THEN FloatNaN
    ELSE IF text.kind = "inf" THEN FloatInf
    ELSE Raise("could not convert string to float")

\* a range test that lets every number through
RangeErrorNever(parsed, max, msg) ==
    IF parsed.tag = "ok" /\ parsed.is = "finite" THEN Ok(parsed.val)
    ELSE parsed

\* `if value <= 0 or value > max: raise ValueError(msg)` and `return value`:
\* both tests are false for nan, the second is true for inf
RangeError(parsed, max, msg) ==
    IF parsed.tag # "ok" \/ parsed.is = "nan" THEN parsed
    ELSE IF parsed.is = "inf" THEN Raise(msg)
    ELSE IF parsed.val <= 0 \/ parsed.val > max THEN Raise(msg)
    ELSE Ok(parsed.val)

\* hours, in hundredths
MaxDuration == 2400
parse_duration_input(text) ==
    IF text.kind \in {"empty", "blank"} THEN Keep
    ELSE LET parsed == RangeError(DurationFloat(text), MaxDuration,
                           "Duration must be between 0 and 24 hours")
         IN IF parsed.tag = "error" /\ parsed.val = "could not convert string to float"
            THEN Raise("Unable to parse duration")
            ELSE parsed

\* float(rate_str) after the strip and the replaces of '$' and ','
RateFloat(text) ==
    IF text.kind = "num" THEN Float(text.a)
    ELSE IF text.kind = "decimal" /\ text.suffix = "" THEN Float(text.a)
    ELSE IF text.kind = "nan" THEN FloatNaN
    ELSE IF text.kind = "inf" THEN FloatInf
    ELSE Raise("could not convert string to float")

\* dollars per hour, in cents
MaxRate == 1000000
validate_hourly_rate(text) ==
    IF text.kind \in {"empty", "blank"} THEN Keep
    ELSE LET parsed == RangeError(RateFloat(text), MaxRate,
                           "Rate must be between $0 and $10,000")
         IN IF parsed.tag = "error" /\ parsed.val = "could not convert string to float"
            THEN Raise("Unable to parse rate")
            ELSE parsed

\* float(rate) on the text of a metadata value: blanks at both ends are
\* skipped, "nan" and "inf" are floats, anything else around the digits
\* ("$", ",", a unit) is a ValueError
float(text) ==
    IF text.kind = "num" THEN Float(text.a)
    ELSE IF IsPlain(text) THEN Float(text.a)
    ELSE IF text.kind = "nan" THEN FloatNaN
    ELSE IF text.kind = "inf" THEN FloatInf
    ELSE Raise("could not convert string to float")

\* get_customer_hourly_rate: float() of the metadata value if there is one
\* and it is not the empty string; the default if there is none or float()
\* raises ValueError. The result is a float: a number of cents, nan or inf.
get_customer_hourly_rate(customer, default_rate) ==
    IF IsSet(customer.metadata) /\ Val(customer.metadata).kind # "empty"
    THEN LET parsed == float(Val(customer.metadata))
         IN IF parsed.tag = "error" THEN Float(default_rate) ELSE parsed
    ELSE Float(default_rate)

-----------------------------------------------------------------------------
(* The override values as each consumer computes them *)

\* display_meeting_list, lines 686-695
ListingDuration(meeting) ==
    IF meeting.edited_duration # None THEN Val(meeting.edited_duration)
    ELSE meeting.duration
ListingTime(meeting) ==
    IF IsSet(meeting.edited_start_time)
    THEN FormatTime12(Val(meeting.edited_start_time))
    ELSE meeting.time
ListingRate(meeting, hourly_rate) ==
    IF meeting.custom_rate # None THEN Val(meeting.custom_rate) ELSE hourly_rate
ListingAmount(meeting, hourly_rate) ==
    ListingDuration(meeting) * ListingRate(meeting, hourly_rate)

\* a confirmation that totals at the customer rate, ignoring custom_rate
ConfirmationRateDefault(meeting, hourly_rate) == hourly_rate

\* show_invoice_confirmation, lines 1095-1102
ConfirmationDuration(meeting) ==
    IF meeting.edited_duration # None THEN Val(meeting.edited_duration)
    ELSE meeting.duration
ConfirmationTime(meeting) ==
    IF IsSet(meeting.edited_start_time)
    THEN FormatTime12(Val(meeting.edited_start_time))
    ELSE meeting.time
ConfirmationRate(meeting, hourly_rate) ==
    IF meeting.custom_rate # None THEN Val(meeting.custom_rate) ELSE hourly_rate
ConfirmationAmount(meeting, hourly_rate) ==
    ConfirmationDuration(meeting) * ConfirmationRate(meeting, hourly_rate)

\* an emission that bills the calendar duration, ignoring edited_duration
EmissionDurationBase(meeting) == meeting.duration

\* create_draft_invoice, lines 1146-1157
EmissionDuration(meeting) ==
    IF meeting.edited_duration # None THEN Val(meeting.edited_duration)
    ELSE meeting.duration
EmissionTime(meeting) ==
    IF IsSet(meeting.edited_start_time)
    THEN FormatTime12(Val(meeting.edited_start_time))
    ELSE meeting.time
EmissionRate(meeting, hourly_rate) ==
    IF meeting.custom_rate # None THEN Val(meeting.custom_rate) ELSE hourly_rate
\* duration * rate: hundredths of an hour times cents, so 1/10000 dollar
EmissionAmount(meeting, hourly_rate) ==
    EmissionDuration(meeting) * EmissionRate(meeting, hourly_rate)

\* int(amount * 100): cents, truncated (in exact arithmetic; the binary
\* product of the code can fall below a whole number of cents and lose one more)
\* int() drops the fraction, towards zero
MinorUnits(amount) ==
    IF amount >= 0 THEN amount \div 100 ELSE 0 - ((0 - amount) \div 100)

\* a description without the [ID:...] tag
LineDescriptionNoTag(meeting, hourly_rate) ==
    <<Tok("synopsis", meeting.synopsis),
      Tok("date", meeting.date),
      Tok("time", EmissionTime(meeting)),
      Tok("duration", EmissionDuration(meeting)),
      Tok("rate", EmissionRate(meeting, hourly_rate))>>

\* the line-item description of line 1160
LineDescription(meeting, hourly_rate) ==
    <<Tok("synopsis", meeting.synopsis),
      Tok("date", meeting.date),
      Tok("time", EmissionTime(meeting)),
      Tok("duration", EmissionDuration(meeting)),
      Tok("rate", EmissionRate(meeting, hourly_rate)),
      IdTag(meeting.id)>>

-----------------------------------------------------------------------------
(* The interactive session: what each command does to the data *)

\* --interactive of the modelled invocation
force_interactive == FALSE

MeetingAt(cwm, ref) == cwm[CwmIndex(cwm, ref[1])].meetings[ref[2]]
SetMeeting(cwm, ref, meeting) ==
    [cwm EXCEPT ![CwmIndex(cwm, ref[1])].meetings[ref[2]] = meeting]

\* a toggle that only ever selects
ToggleMeetingSelectOnly(meeting) ==
    IF meeting.invoice_status # "not_invoiced" THEN meeting
    ELSE [meeting EXCEPT !.selected = TRUE]

\* a toggle without the status guard
ToggleMeetingAny(meeting) == [meeting EXCEPT !.selected = ~meeting.selected]

\* [number]: lines 819-822
ToggleMeeting(meeting) ==
    IF meeting.invoice_status # "not_invoiced" THEN meeting
    ELSE [meeting EXCEPT !.selected = ~meeting.selected]

\* an 'all' that selects every meeting whatever its status
SelectAllMeetingAny(meeting) == [meeting EXCEPT !.selected = TRUE]

\* 'all': lines 799-802
SelectAllMeeting(meeting) ==
    IF meeting.invoice_status = "not_invoiced"
    THEN [meeting EXCEPT !.selected = TRUE]
    ELSE meeting
SelectAll(cwm) ==
    [k \in DOMAIN cwm |->
        [cwm[k] EXCEPT !.meetings =
            [i \in DOMAIN cwm[k].meetings |-> SelectAllMeeting(cwm[k].meetings[i])]]]

\* 'none': lines 807-809
DeselectAll(cwm) ==
    [k \in DOMAIN cwm |->
        [cwm[k] EXCEPT !.meetings =
            [i \in DOMAIN cwm[k].meetings |->
                [cwm[k].meetings[i] EXCEPT !.selected = FALSE]]]]

\* an update of the flag that also drops the custom rate
UpdateIsEditedDropRate(meeting) ==
    [meeting EXCEPT
        !.is_edited = (meeting.edited_start_time # None
                       \/ meeting.edited_duration # None),
        !.custom_rate = None]

\* a flag that follows edited_duration only
UpdateIsEditedDurationOnly(meeting) ==
    [meeting EXCEPT !.is_edited = (meeting.edited_duration # None)]

\* edit_meeting_details, lines 619-621
UpdateIsEdited(meeting) ==
    [meeting EXCEPT !.is_edited =
        (meeting.edited_start_time # None \/ meeting.edited_duration # None)]

\* a start-time prompt at which an empty answer clears the override
EditStartTimeEmptyClears(meeting, text) ==
    IF text.kind \in {"empty", "original"}
    THEN [meeting EXCEPT !.edited_start_time = None]
    ELSE [meeting EXCEPT
             !.edited_start_time = Some(parse_time_input(text).val)]

\* the start-time prompt, lines 579-590, for an answer that does not raise
EditStartTime(meeting, text) ==
    IF text.kind = "empty" THEN meeting
    ELSE IF text.kind = "original"
         THEN [meeting EXCEPT !.edited_start_time = None]
         ELSE [meeting EXCEPT
                  !.edited_start_time = Some(parse_time_input(text).val)]

\* an edit that writes the new duration over the calendar duration
EditDurationRebase(meeting, text) ==
    IF text.kind = "empty" THEN meeting
    ELSE IF text.kind = "original"
         THEN [meeting EXCEPT !.edited_duration = None]
         ELSE [meeting EXCEPT
                  !.duration = parse_duration_input(text).val,
                  !.edited_duration = Some(parse_duration_input(text).val)]

\* the duration prompt, lines 602-613, for an answer that does not raise
EditDurationValue(meeting, text) ==
    IF text.kind = "empty" THEN meeting
    ELSE IF text.kind = "original"
         THEN [meeting EXCEPT !.edited_duration = None]
         ELSE [meeting EXCEPT
                  !.edited_duration = Some(parse_duration_input(text).val)]

\* 'rate': lines 873-874; validate_hourly_rate returned, it did not raise
\* a rate command that also marks the meeting as edited
SetCustomRateEdited(meeting, parsed) ==
    [meeting EXCEPT !.custom_rate = Some(parsed.val), !.is_edited = TRUE]

SetCustomRate(meeting, parsed) ==
    [meeting EXCEPT !.custom_rate =
        IF parsed.tag = "none" THEN None ELSE Some(parsed.val)]

\* a lookup that compares the e-mail as typed
SetRateTargetExact(cwm, email) ==
    LET I == {k \in DOMAIN cwm : cwm[k].customer.email = email}
    IN IF I = {} THEN 0 ELSE CHOOSE k \in I : \A j \in I : k <= j

\* 'setrate': the first customer with meetings whose e-mail matches, lines 897-898
SetRateTarget(cwm, email) ==
    LET I == {k \in DOMAIN cwm : Lower(cwm[k].customer.email) = Lower(email)}
    IN IF I = {} THEN 0 ELSE CHOOSE k \in I : \A j \in I : k <= j

\* 'assign': the first roster customer with that e-mail, lines 954-958
AssignTarget(all_customers, email) ==
    LET I == {k \in DOMAIN all_customers :
                 Lower(all_customers[k].email) = Lower(email)}
    IN IF I = {} THEN 0 ELSE CHOOSE k \in I : \A j \in I : k <= j

\* customer_meeting, lines 974-991
CustomerMeeting(meeting) ==
    [id |-> meeting.id,
     summary |-> meeting.summary,
     date |-> meeting.date,
     time |-> meeting.time,
     duration |-> meeting.duration,
     start_time |-> meeting.start_time,
     end_time |-> meeting.end_time,
     invoice_status |-> "not_invoiced",
     selected |-> TRUE,
     synopsis |-> meeting.synopsis,
     edited_start_time |-> None,
     edited_duration |-> None,
     custom_rate |-> None,
     is_edited |-> FALSE,
     detection_source |-> "manual_assignment",
     is_manually_assigned |-> TRUE]

\* a U-toggle without the test for an assigned customer
ToggleUnassociatedAny(meeting) ==
    [meeting EXCEPT !.selected = ~meeting.selected]

\* U[number]: lines 929-934
ToggleUnassociated(meeting) ==
    IF IsSet(meeting.assigned_customer)
    THEN [meeting EXCEPT !.selected = ~meeting.selected]
    ELSE meeting

-----------------------------------------------------------------------------
(* Synopsis entry, confirmation, emission *)

\* every meeting of the list, selected or not
AllMeetings(meetings) == [i \in DOMAIN meetings |-> i]

\* [m for m in data['meetings'] if m['selected']], as indices
RECURSIVE SelectedFrom(_, _)
SelectedFrom(meetings, i) ==
    IF i > Len(meetings) THEN <<>>
    ELSE IF meetings[i].selected
         THEN <<i>> \o SelectedFrom(meetings, i + 1)
         ELSE SelectedFrom(meetings, i + 1)
SelectedMeetings(meetings) == SelectedFrom(meetings, 1)

\* the selected meetings in the order the synopsis prompts come
RECURSIVE PromptOrder(_, _)
PromptOrder(cwm, k) ==
    IF k > Len(cwm) THEN <<>>
    ELSE LET sel == SelectedMeetings(cwm[k].meetings)
         IN [j \in DOMAIN sel |-> <<cwm[k].customer_id, sel[j]>>]
            \o PromptOrder(cwm, k + 1)

\* a synopsis that is the answer even when the answer is empty
SynopsisOfAnswer(meeting, answer) == answer

\* lines 1052-1058
SynopsisOf(meeting, answer) == IF answer = "" THEN meeting.summary ELSE answer

\* get_synopsis_for_selected_meetings, the answers given in prompt order
RECURSIVE EnterSynopses(_, _, _, _)
EnterSynopses(cwm, refs, answers, j) ==
    IF j > Len(refs) THEN cwm
    ELSE EnterSynopses(
             SetMeeting(cwm, refs[j],
                 [MeetingAt(cwm, refs[j]) EXCEPT
                     !.synopsis = SynopsisOf(MeetingAt(cwm, refs[j]), answers[j])]),
             refs, answers, j + 1)

\* a confirmation that takes every answer but n/no for a yes
ConfirmAnswerLax(text) ==
    IF text \in {"n", "no"} THEN "cancel" ELSE "create"

\* show_invoice_confirmation, lines 1120-1128
ConfirmAnswer(text) ==
    IF text \in {"y", "yes"} THEN "create"
    ELSE IF text \in {"n", "no"} THEN "cancel"
    ELSE "ask again"

Invoice(customer_id, status, lines) ==
    [customer |-> customer_id, status |-> status, lines |-> lines]

InvoiceCall(customer_id, ok) ==
    [op |-> "Invoice.create", customer |-> customer_id, meeting |-> 0,
     id |-> None, amount |-> 0, description |-> <<>>, ok |-> ok]

\* stripe.InvoiceItem.create(...), lines 1162-1168
ItemCall(customer_id, index, meeting, hourly_rate, ok) ==
    [op |-> "InvoiceItem.create", customer |-> customer_id, meeting |-> index,
     id |-> Some(meeting.id),
     amount |-> MinorUnits(EmissionAmount(meeting, hourly_rate)),
     description |-> LineDescription(meeting, hourly_rate), ok |-> ok]

\* the calls create_draft_invoice makes when call number fail_at raises
\* (0: Invoice.create, j: the j-th InvoiceItem.create, beyond: none)
DraftInvoiceCalls(entry, sel, hourly_rate, fail_at) ==
    <<InvoiceCall(entry.customer_id, fail_at # 0)>>
    \o IF fail_at = 0 THEN <<>>
       ELSE [j \in 1..Min(fail_at, Len(sel)) |->
                ItemCall(entry.customer_id, sel[j], entry.meetings[sel[j]],
                         hourly_rate, j # fail_at)]

\* a create_draft_invoice that returns the invoice once Invoice.create worked
InvoiceReturnedOnceCreated(sel, fail_at) == fail_at # 0

\* create_draft_invoice returns the invoice (line 1173) iff no call raised,
\* and None from the except clause (lines 1175-1177) otherwise
InvoiceReturned(sel, fail_at) == fail_at > Len(sel)

\* the invoice Stripe holds afterwards: the line items whose call succeeded
DraftInvoiceRecord(entry, sel, hourly_rate, fail_at) ==
    Invoice(entry.customer_id, "draft",
            [j \in 1..Min(fail_at - 1, Len(sel)) |->
                LineDescription(entry.meetings[sel[j]], hourly_rate)])

-----------------------------------------------------------------------------
(* Inputs the model draws from *)

IdAlice1 == generate_meeting_id("alice@x.com", Stamp(15, 840), "Strategy Session")
IdBob4 == generate_meeting_id("bob@x.com", Stamp(16, 780), "Review")
IdIntro == generate_meeting_id("unassociated", Stamp(16, 600), "Intro Call")

\* a line item an earlier run wrote for the meeting
OldLine(mid) == <<Tok("synopsis", "earlier"), IdTag(mid)>>

\* billing stores the session model starts from
SessionStores ==
    {<<>>,
     <<Invoice("cus_A", "open", <<OldLine(IdAlice1)>>)>>,
     <<Invoice("cus_B", "draft", <<OldLine(IdBob4)>>)>>}

\* the calendar snapshot of the session model
SessionEvents == <<Event1, Event3, Event4>>

TimeInputs == {Empty, Original, Clock(14, 30), Clock(25, 0)}
DurationInputs == {Empty, Original, Num(250), Num(2500)}
RateInputs == {Num(30000), Num(0), Junk, Empty}
EmailInputs == {"alice@x.com", "Bob@X.com", "nobody@z.com"}
SynopsisInputs == {"", "notes"}
ConfirmInputs == {"y", "no", "maybe"}

-----------------------------------------------------------------------------
(* Initial states *)

InitRun ==
    /\ phase = "start"
    /\ customers_with_meetings = <<>>
    /\ unassociated_meetings = <<>>
    /\ meeting_map = <<>>
    /\ unassociated_map = <<>>
    /\ edit_target = None
    /\ emit_cursor = 0
    /\ created_invoices = <<>>
    /\ calls = <<>>
    /\ answered = ""
    /\ rate_calls = <<>>
    /\ cmds = 0
    /\ run = 1
    /\ prev_emitted = {}
    /\ arg = None
    /\ ret = None

Init ==
    /\ InitRun
    /\ include_all_meetings = TRUE
    /\ events = SessionEvents
    /\ cmd_limit = MaxCmds
    /\ lookup_down \in {{}, {"cus_A"}}
    /\ store \in SessionStores

-----------------------------------------------------------------------------
(* run_automation, Steps 1-3 and the first listing *)

config == <<include_all_meetings, events, cmd_limit, lookup_down>>
emission == <<emit_cursor, created_invoices, calls, answered>>
pure == <<arg, ret>>
runs == <<run, prev_emitted>>

Reconcile ==
    /\ phase = "start"
    /\ \E orders \in IterationOrders(events, Roster) :
         LET r == find_customers_with_meetings(Roster, events,
                      include_all_meetings, orders, store, lookup_down)
             un == IF include_all_meetings THEN r.un ELSE <<>>
             shown == display_meeting_list(r.cwm, un)
         IN IF \/ Roster = <<>>
               \/ events = <<>>
               \/ (r.cwm = <<>> /\ r.un = <<>> /\ ~force_interactive)
               \/ (r.cwm = <<>> /\ ~force_interactive /\ ~include_all_meetings)
            THEN /\ phase' = "returned"
                 /\ UNCHANGED <<customers_with_meetings, unassociated_meetings,
                                meeting_map, unassociated_map>>
            ELSE /\ phase' = "session"
                 /\ customers_with_meetings' = r.cwm
                 /\ unassociated_meetings' = un
                 /\ meeting_map' = shown.meeting_map
                 /\ unassociated_map' = shown.unassociated_map
    /\ UNCHANGED <<config, store, edit_target, emission, rate_calls, cmds, runs,
                   pure>>

-----------------------------------------------------------------------------
(* display_meetings_interactive: one action per command *)

\* a command line as the operator typed it: the command word and its arguments
Command(word, num, u, email, text) ==
    [cmd |-> word, num |-> num, n |-> u, email |-> email, text |-> text]

\* the text after the command word where a number is expected: a decimal
\* integer, a word, or digits that are no decimal number (such as a
\* superscript two)
Decimal(k) == [kind |-> "int", n |-> k]
Word == [kind |-> "word", n |-> 0]
Superscript == [kind |-> "superscript", n |-> 0]
NoNumber == [kind |-> "none", n |-> 0]
NumberInputs(listed) ==
    {Decimal(k) : k \in (0 - 1)..(listed + 1)} \cup {Word, Superscript}

\* str.isdigit(): every character is a digit, decimal or not
isdigit(text) ==
    \/ text.kind = "int" /\ text.n >= 0
    \/ text.kind = "superscript"

\* int(text): the number, or ValueError
int(text) == IF text.kind = "int" THEN Ok(text.n) ELSE Raise("invalid literal")

\* the command line is kept in arg by the specifications that start with a
\* command in it; the others leave arg empty
Log(c) == arg' = IF arg = None THEN None ELSE Some(c)

\* what no session command touches
SessionFrame == UNCHANGED <<config, store, emission, runs, ret>>

\* a command that changed the data: the listing is shown again
Changed(cwm, un) ==
    /\ cmds < cmd_limit
    /\ cmds' = cmds + 1
    /\ customers_with_meetings' = cwm
    /\ unassociated_meetings' = un
    /\ meeting_map' = display_meeting_list(cwm, un).meeting_map
    /\ unassociated_map' = display_meeting_list(cwm, un).unassociated_map

\* the data of the session as it was
SameData ==
    UNCHANGED <<customers_with_meetings, unassociated_meetings, meeting_map,
                unassociated_map>>

\* a command line that changed nothing: where the command lines are kept it
\* counts as a command read, elsewhere the step shows nothing
Counted ==
    IF arg = None THEN UNCHANGED cmds
    ELSE cmds < cmd_limit /\ cmds' = cmds + 1

\* a command that was rejected: a message, and the prompt again
Rejected == SameData /\ Counted

CmdQuit ==
    /\ phase = "session"
    /\ phase' = "exited"
    /\ Log(Command("quit", NoNumber, 0, "", Empty))
    /\ SameData
    /\ UNCHANGED cmds
    /\ UNCHANGED <<edit_target, rate_calls>>
    /\ SessionFrame

CmdContinue ==
    /\ phase = "session"
    /\ phase' = "synopsis"
    /\ Log(Command("continue", NoNumber, 0, "", Empty))
    /\ SameData
    /\ UNCHANGED cmds
    /\ UNCHANGED <<edit_target, rate_calls>>
    /\ SessionFrame

CmdAll ==
    /\ phase = "session"
    /\ Log(Command("all", NoNumber, 0, "", Empty))
    /\ Changed(SelectAll(customers_with_meetings), unassociated_meetings)
    /\ UNCHANGED <<phase, edit_target, rate_calls>>
    /\ SessionFrame

CmdNone ==
    /\ phase = "session"
    /\ Log(Command("none", NoNumber, 0, "", Empty))
    /\ Changed(DeselectAll(customers_with_meetings), unassociated_meetings)
    /\ UNCHANGED <<phase, edit_target, rate_calls>>
    /\ SessionFrame

\* a command line for which command.isdigit() holds, lines 813-829; int() is
\* called outside any try, so its ValueError ends run_automation
CmdToggle ==
    /\ phase = "session"
    /\ \E text \in {t \in NumberInputs(Len(meeting_map)) : isdigit(t)} :
         /\ Log(Command("toggle", text, 0, "", Empty))
         /\ IF int(text).tag = "error"
            THEN phase' = "crashed" /\ SameData /\ UNCHANGED cmds
            ELSE LET n == int(text).val
                 IN /\ UNCHANGED phase
                    /\ IF /\ n \in DOMAIN meeting_map
                          /\ ToggleMeeting(MeetingAt(customers_with_meetings,
                                                     meeting_map[n]))
                                 # MeetingAt(customers_with_meetings,
                                             meeting_map[n])
                       THEN Changed(SetMeeting(customers_with_meetings,
                                        meeting_map[n],
                                        ToggleMeeting(MeetingAt(
                                            customers_with_meetings,
                                            meeting_map[n]))),
                                    unassociated_meetings)
                       ELSE Rejected
    /\ UNCHANGED <<edit_target, rate_calls>>
    /\ SessionFrame

\* 'edit n' and 'time n': edit_meeting_details starts and asks for the time
CmdEdit ==
    /\ phase = "session"
    /\ \E word \in {"edit", "time"}, text \in NumberInputs(Len(meeting_map)) :
         /\ Log(Command(word, text, 0, "", Empty))
         /\ IF int(text).tag # "error" /\ int(text).val \in DOMAIN meeting_map
            THEN /\ cmds < cmd_limit
                 /\ edit_target' = meeting_map[int(text).val]
                 /\ phase' = "edit_time"
                 /\ SameData
                 /\ UNCHANGED cmds
            ELSE /\ UNCHANGED <<edit_target, phase>>
                 /\ Rejected
    /\ UNCHANGED rate_calls
    /\ SessionFrame

\* the answer to "Start time [...]": a text that raises is asked for again
EditTime ==
    /\ phase = "edit_time"
    /\ \E text \in TimeInputs :
         /\ IF text.kind \notin {"empty", "original"}
               /\ parse_time_input(text).tag = "error"
            THEN UNCHANGED <<phase, customers_with_meetings>>
            ELSE /\ phase' = "edit_duration"
                 /\ customers_with_meetings' =
                        SetMeeting(customers_with_meetings, edit_target,
                            EditStartTime(MeetingAt(customers_with_meetings,
                                                    edit_target), text))
         /\ Log(Command("Start time", NoNumber, 0, "", text))
    /\ UNCHANGED <<unassociated_meetings, meeting_map, unassociated_map, cmds,
                   edit_target, rate_calls>>
    /\ SessionFrame

\* the answer to "Duration in hours [...]", the is_edited update and the return
\* to the prompt, where the listing is shown again
EditDuration ==
    /\ phase = "edit_duration"
    /\ \E text \in DurationInputs :
         /\ IF text.kind \notin {"empty", "original"}
               /\ parse_duration_input(text).tag = "error"
            THEN UNCHANGED <<phase, customers_with_meetings,
                             unassociated_meetings, meeting_map,
                             unassociated_map, cmds, edit_target>>
            ELSE /\ phase' = "session"
                 /\ edit_target' = None
                 /\ Changed(SetMeeting(customers_with_meetings, edit_target,
                                UpdateIsEdited(EditDurationValue(
                                    MeetingAt(customers_with_meetings,
                                              edit_target),
                                    text))),
                            unassociated_meetings)
         /\ Log(Command("Duration in hours", NoNumber, 0, "", text))
    /\ UNCHANGED rate_calls
    /\ SessionFrame

\* 'rate n amount', lines 862-887; an empty text stands for a line with fewer
\* than three parts
CmdRate ==
    /\ phase = "session"
    /\ \E num \in NumberInputs(Len(meeting_map)), text \in RateInputs :
         /\ Log(Command("rate", num, 0, "", text))
         /\ IF /\ text # Empty
               /\ int(num).tag # "error"
               /\ int(num).val \in DOMAIN meeting_map
               /\ validate_hourly_rate(text).tag # "error"
            THEN Changed(SetMeeting(customers_with_meetings,
                             meeting_map[int(num).val],
                             SetCustomRate(MeetingAt(customers_with_meetings,
                                               meeting_map[int(num).val]),
                                           validate_hourly_rate(text))),
                         unassociated_meetings)
            ELSE Rejected
    /\ UNCHANGED <<phase, edit_target, rate_calls>>
    /\ SessionFrame

\* 'setrate': set_customer_hourly_rate calls stripe.Customer.modify, which
\* succeeds or raises; the customer record held by the session is not touched
CmdSetRate ==
    /\ phase = "session"
    /\ \E email \in EmailInputs, text \in RateInputs, ok \in BOOLEAN :
         LET k == SetRateTarget(customers_with_meetings, email)
         IN /\ Log(Command("setrate", NoNumber, 0, email, text))
            /\ IF /\ text # Empty
                  /\ k # 0
                  /\ validate_hourly_rate(text).tag # "error"
               THEN /\ cmds < cmd_limit
                    /\ cmds' = cmds + 1
                    /\ rate_calls' = Append(rate_calls,
                           [customer |-> customers_with_meetings[k].customer_id,
                            rate |-> validate_hourly_rate(text).val,
                            ok |-> ok])
               ELSE Counted /\ UNCHANGED rate_calls
    /\ UNCHANGED <<customers_with_meetings, unassociated_meetings, meeting_map,
                   unassociated_map, phase, edit_target>>
    /\ SessionFrame

CmdUToggle ==
    /\ phase = "session"
    /\ \E u \in 0..(Len(unassociated_map) + 1) :
         /\ Log(Command("U", NoNumber, u, "", Empty))
         /\ IF /\ u \in DOMAIN unassociated_map
               /\ ToggleUnassociated(unassociated_meetings[unassociated_map[u]])
                      # unassociated_meetings[unassociated_map[u]]
            THEN Changed(customers_with_meetings,
                     [unassociated_meetings EXCEPT ![unassociated_map[u]] =
                         ToggleUnassociated(@)])
            ELSE Rejected
    /\ UNCHANGED <<phase, edit_target, rate_calls>>
    /\ SessionFrame

CmdAssign ==
    /\ phase = "session"
    /\ \E u \in 0..(Len(unassociated_map) + 1), email \in EmailInputs :
         LET c == AssignTarget(Roster, email)
         IN /\ Log(Command("assign", NoNumber, u, email, Empty))
            /\ IF u \in DOMAIN unassociated_map /\ c # 0
               THEN Changed(
                        AppendMeeting(customers_with_meetings, Roster[c],
                            CustomerMeeting(
                                unassociated_meetings[unassociated_map[u]])),
                        [unassociated_meetings EXCEPT ![unassociated_map[u]] =
                            [@ EXCEPT !.assigned_customer = Some(Roster[c]),
                                      !.is_manually_assigned = TRUE]])
               ELSE Rejected
    /\ UNCHANGED <<phase, edit_target, rate_calls>>
    /\ SessionFrame

\* any other command line: "Invalid command" and the list of commands,
\* lines 1023-1025
CmdInvalid ==
    /\ phase = "session"
    /\ \E text \in {t \in NumberInputs(Len(meeting_map)) : ~isdigit(t)} :
         Log(Command("", text, 0, "", Empty))
    /\ Rejected
    /\ UNCHANGED <<phase, edit_target, rate_calls>>
    /\ SessionFrame

-----------------------------------------------------------------------------
(* After 'continue' *)

\* get_synopsis_for_selected_meetings: one answer per selected meeting
Synopsis ==
    /\ phase = "synopsis"
    /\ LET refs == PromptOrder(customers_with_meetings, 1)
       IN \E answers \in [DOMAIN refs -> SynopsisInputs] :
            /\ customers_with_meetings' =
                   EnterSynopses(customers_with_meetings, refs, answers, 1)
            \* the "Synopsis [...]: " prompts shown and the answers read
            /\ Log([cmd |-> "Synopsis", num |-> NoNumber, n |-> 0,
                    email |-> "", text |-> Empty,
                    prompts |-> refs, answers |-> answers])
    /\ phase' = "confirm"
    /\ UNCHANGED <<unassociated_meetings, meeting_map, unassociated_map, cmds,
                   edit_target, rate_calls>>
    /\ SessionFrame

\* show_invoice_confirmation and the test of its result in Step 5
Confirm ==
    /\ phase = "confirm"
    /\ \E text \in ConfirmInputs :
         /\ phase' = CASE ConfirmAnswer(text) = "create" ->
                            IF customers_with_meetings = <<>> THEN "done"
                            ELSE "emit"
                      [] ConfirmAnswer(text) = "cancel" -> "cancelled"
                      [] OTHER -> "confirm"
         /\ emit_cursor' = IF ConfirmAnswer(text) = "create" THEN 1 ELSE emit_cursor
         /\ answered' = text
    /\ UNCHANGED <<customers_with_meetings, unassociated_meetings, meeting_map,
                   unassociated_map, cmds, edit_target, rate_calls,
                   created_invoices, calls, config, store, runs, pure>>

\* Step 6, one customer: create_draft_invoice for the selected meetings. The
\* Stripe call number fail_at raises; the new invoice is listed before or
\* after the invoices Stripe already holds.
Emit ==
    /\ phase = "emit"
    /\ LET entry == customers_with_meetings[emit_cursor]
           sel == SelectedMeetings(entry.meetings)
           \* the rosters of a session hold finite rates only
           hourly_rate == get_customer_hourly_rate(entry.customer,
                                                   DefaultHourlyRate).val
       IN IF sel = <<>>
          THEN UNCHANGED <<store, calls, created_invoices>>
          ELSE \E fail_at \in 0..(Len(sel) + 1), first \in BOOLEAN :
                 /\ calls' = calls \o DraftInvoiceCalls(entry, sel, hourly_rate,
                                                        fail_at)
                 /\ store' =
                        IF fail_at = 0 THEN store
                        ELSE IF first
                        THEN <<DraftInvoiceRecord(entry, sel, hourly_rate,
                                                  fail_at)>> \o store
                        ELSE Append(store, DraftInvoiceRecord(entry, sel,
                                                hourly_rate, fail_at))
                 /\ created_invoices' =
                        IF InvoiceReturned(sel, fail_at)
                        THEN Append(created_invoices, entry.customer_id)
                        ELSE created_invoices
    /\ emit_cursor' = emit_cursor + 1
    /\ phase' = IF emit_cursor = Len(customers_with_meetings) THEN "done"
                ELSE "emit"
    /\ UNCHANGED <<customers_with_meetings, unassociated_meetings, meeting_map,
                   unassociated_map, cmds, edit_target, rate_calls, config, runs,
                   pure, answered>>

Next ==
    \/ Reconcile
    \/ CmdQuit
    \/ CmdContinue
    \/ CmdAll
    \/ CmdNone
    \/ CmdToggle
    \/ CmdEdit
    \/ EditTime
    \/ EditDuration
    \/ CmdRate
    \/ CmdSetRate
    \/ CmdUToggle
    \/ CmdAssign
    \/ CmdInvalid
    \/ Synopsis
    \/ Confirm
    \/ Emit

Spec == Init /\ [][Next]_vars

-----------------------------------------------------------------------------
(* Vocabulary of the properties *)

\* every Meeting in a customer's list, as <<position of the customer, index>>
MeetingRefs ==
    {<<k, i>> \in (DOMAIN customers_with_meetings) \X (1..8) :
        i \in DOMAIN customers_with_meetings[k].meetings}
MeetingOf(r) == customers_with_meetings[r[1]].meetings[r[2]]
CustomerOf(r) == customers_with_meetings[r[1]].customer

\* the session is at its prompt or past it: no command is half done
AtPrompt == phase \notin {"start", "edit_time", "edit_duration"}

ItemCalls == {j \in DOMAIN calls : calls[j].op = "InvoiceItem.create"}

\* the Meeting a line-item call was made for
CallRef(j) ==
    <<CwmIndex(customers_with_meetings, calls[j].customer), calls[j].meeting>>

\* the precedence rule of the override calculator
effective_duration(meeting) ==
    IF IsSet(meeting.edited_duration) THEN Val(meeting.edited_duration)
    ELSE meeting.duration
effective_rate(meeting, customer_default_rate) ==
    IF IsSet(meeting.custom_rate) THEN Val(meeting.custom_rate)
    ELSE customer_default_rate
effective_time(meeting) ==
    IF IsSet(meeting.edited_start_time)
    THEN FormatTime12(Val(meeting.edited_start_time))
    ELSE meeting.time
CustomerDefaultRate(r) ==
    get_customer_hourly_rate(CustomerOf(r), DefaultHourlyRate).val

-----------------------------------------------------------------------------
(* C1 *)

\* C1: in every state of a session, a Meeting whose invoice status is
\* 'drafted' or 'sent' has selected = false.
C1_BilledNeverSelected ==
    \A r \in MeetingRefs :
        MeetingOf(r).invoice_status \in {"drafted", "sent"}
            => ~MeetingOf(r).selected

\* a session in which commands changed selections next to a billed meeting
C1_Witness ==
    /\ phase = "session"
    /\ cmds = 2
    /\ \E r \in MeetingRefs : MeetingOf(r).invoice_status = "sent"
    /\ \E r \in MeetingRefs :
          /\ MeetingOf(r).invoice_status = "not_invoiced"
          /\ MeetingOf(r).is_manually_assigned
          /\ ~MeetingOf(r).selected

-----------------------------------------------------------------------------
(* C5 *)

\* C5: a Stripe write call is made only after the operator left the session
\* with 'continue' and answered the confirmation with y/yes; after 'quit' or
\* an answer n/no no Invoice.create and no InvoiceItem.create call was made.
C5_NoEmissionBeforeConfirmation ==
    /\ calls # <<>> => (phase \in {"emit", "done"} /\ answered \in {"y", "yes"})
    /\ phase \in {"exited", "cancelled"} => calls = <<>>
    /\ answered \in {"n", "no"} => (calls = <<>> /\ phase = "cancelled")

\* a confirmed run that made calls
C5_Witness ==
    /\ phase = "done"
    /\ answered = "y"
    /\ \E j \in DOMAIN calls : calls[j].op = "InvoiceItem.create" /\ calls[j].ok

-----------------------------------------------------------------------------
(* C6 *)

SelectedRefs == {r \in MeetingRefs : MeetingOf(r).selected}
AttemptedRefs == {CallRef(j) : j \in ItemCalls}

-----------------------------------------------------------------------------
(* C8 *)

\* C8: the amount of every line item is effective duration x effective rate,
\* in minor units, an override taking precedence over the base value.
C8_AmountIsEffective ==
    \A j \in ItemCalls :
        calls[j].amount =
            MinorUnits(effective_duration(MeetingOf(CallRef(j)))
                       * effective_rate(MeetingOf(CallRef(j)),
                                        CustomerDefaultRate(CallRef(j))))

\* base 1.0 h at the default $150, edited to 2.5 h at $300: $750.00
C8_Witness ==
    \E j \in ItemCalls :
        /\ MeetingOf(CallRef(j)).duration = 100
        /\ CustomerDefaultRate(CallRef(j)) = 15000
        /\ MeetingOf(CallRef(j)).edited_duration = Some(250)
        /\ MeetingOf(CallRef(j)).custom_rate = Some(30000)
        /\ calls[j].amount = 75000

-----------------------------------------------------------------------------
(* C9 *)

\* C9: the listing, the confirmation and the emission compute the same
\* start time, duration, rate and amount for every Meeting, and the line
\* items sent carry those values.
C9_ConsumersAgree ==
    /\ \A r \in MeetingRefs :
          LET m == MeetingOf(r)
              d == CustomerDefaultRate(r)
          IN /\ ListingTime(m) = ConfirmationTime(m)
             /\ ConfirmationTime(m) = EmissionTime(m)
             /\ ListingDuration(m) = ConfirmationDuration(m)
             /\ ConfirmationDuration(m) = EmissionDuration(m)
             /\ ListingRate(m, d) = ConfirmationRate(m, d)
             /\ ConfirmationRate(m, d) = EmissionRate(m, d)
             /\ ListingAmount(m, d) = ConfirmationAmount(m, d)
             /\ ConfirmationAmount(m, d) = EmissionAmount(m, d)
    /\ \A j \in ItemCalls :
          LET m == MeetingOf(CallRef(j))
              d == CustomerDefaultRate(CallRef(j))
          IN /\ calls[j].amount = MinorUnits(ListingAmount(m, d))
             /\ calls[j].amount = MinorUnits(ConfirmationAmount(m, d))
             /\ calls[j].description[3].v = ListingTime(m)
             /\ calls[j].description[3].v = ConfirmationTime(m)
             /\ calls[j].description[4].v = ListingDuration(m)
             /\ calls[j].description[4].v = ConfirmationDuration(m)
             /\ calls[j].description[5].v = ListingRate(m, d)
             /\ calls[j].description[5].v = ConfirmationRate(m, d)

\* a line item sent for a Meeting with all three overrides set
C9_Witness ==
    \E j \in ItemCalls :
        /\ IsSet(MeetingOf(CallRef(j)).edited_start_time)
        /\ IsSet(MeetingOf(CallRef(j)).edited_duration)
        /\ IsSet(MeetingOf(CallRef(j)).custom_rate)

-----------------------------------------------------------------------------
(* C10 *)

\* C10: between commands, is_edited is true iff edited_start_time is set or
\* edited_duration is set.
C10_IsEditedDerived ==
    AtPrompt =>
        \A r \in MeetingRefs :
            MeetingOf(r).is_edited <=>
                (IsSet(MeetingOf(r).edited_start_time)
                 \/ IsSet(MeetingOf(r).edited_duration))

\* an edit set only the start time; another edit set and a later one cleared
C10_Witness ==
    /\ phase = "session"
    /\ \E r \in MeetingRefs :
          /\ MeetingOf(r).is_edited
          /\ IsSet(MeetingOf(r).edited_start_time)
          /\ ~IsSet(MeetingOf(r).edited_duration)

-----------------------------------------------------------------------------
(* C3 *)

\* what the resolver answers, all lookups working, for the Meeting of call j
ResolvedAfter(j) ==
    check_meeting_invoice_status(store, {}, calls[j].customer, Val(calls[j].id))

\* the invoices of the customer of call j that carry the id of its Meeting
CarriesId(inv, j) ==
    \E k \in DOMAIN inv.lines : DescriptionContains(inv.lines[k], Val(calls[j].id))

\* C3 as stated: every line item created carries the tag of its Meeting, and
\* the resolver, run for the same customer and id against the store that
\* holds the new draft, answers 'drafted'.
C3_EmittedResolvesDrafted ==
    \A j \in ItemCalls :
        /\ DescriptionContains(calls[j].description, Val(calls[j].id))
        /\ calls[j].ok => ResolvedAfter(j) = "drafted"

\* C3 as amended: the answer is never 'not_invoiced'; it is 'drafted' unless
\* the store lists, for the same customer, an open, paid or uncollectible
\* invoice that carries the same id, and then it may be 'sent'.
C3_EmittedResolvesBilled ==
    \A j \in ItemCalls :
        /\ DescriptionContains(calls[j].description, Val(calls[j].id))
        /\ calls[j].ok =>
              \/ ResolvedAfter(j) = "drafted"
              \/ /\ ResolvedAfter(j) = "sent"
                 /\ \E k \in DOMAIN store :
                       /\ store[k].customer = calls[j].customer
                       /\ store[k].status \in {"open", "paid", "uncollectible"}
                       /\ CarriesId(store[k], j)

\* a line item of an edited, re-rated Meeting with its own synopsis, resolved
C3_Witness ==
    \E j \in ItemCalls :
        /\ calls[j].ok
        /\ MeetingOf(CallRef(j)).synopsis = "notes"
        /\ IsSet(MeetingOf(CallRef(j)).edited_start_time)
        /\ IsSet(MeetingOf(CallRef(j)).edited_duration)
        /\ IsSet(MeetingOf(CallRef(j)).custom_rate)
        /\ ResolvedAfter(j) = "drafted"

-----------------------------------------------------------------------------
(* Reconciliation on its own: SpecReconcile *)

InvoiceStatuses == {"draft", "open", "paid", "uncollectible", "void"}

IdAlice2 == generate_meeting_id("alice@x.com", Stamp(15, 600), "Workshop")

\* invoices the store may hold
StoreInvoices ==
    {Invoice("cus_A", st, <<OldLine(IdAlice1)>>) : st \in {"draft", "open", "void"}}
    \cup {Invoice("cus_A", "paid", <<<<>>, OldLine(IdAlice2)>>),
          Invoice("cus_B", "draft", <<OldLine(IdAlice1), OldLine(IdBob4)>>),
          Invoice("cus_B", "uncollectible", <<>>)}

SeqsUpTo(S, n) == UNION {[1..k -> S] : k \in 0..n}

InitReconcile ==
    /\ InitRun
    /\ include_all_meetings \in BOOLEAN
    /\ events \in {SessionEvents, <<Event2, Event3>>, <<Event3>>}
    /\ cmd_limit = 0
    /\ lookup_down \in SUBSET {"cus_A", "cus_B"}
    /\ store \in SeqsUpTo(StoreInvoices, MaxStoreLen)

SpecReconcile == InitReconcile /\ [][Reconcile]_vars

\* the invoices the lookup returns for the customer of Meeting r
Returned(r) ==
    get_customer_invoices(store, lookup_down, CustomerOf(r).id)
Matches(inv, mid) ==
    \E k \in DOMAIN inv.lines : DescriptionContains(inv.lines[k], mid)

FreshMeeting(m) ==
    /\ m.selected <=> (m.invoice_status = "not_invoiced")
    /\ m.edited_start_time = None
    /\ m.edited_duration = None
    /\ m.custom_rate = None
    /\ m.is_edited = FALSE

\* C7 as stated: a Meeting produced by reconciliation is selected iff it is
\* unbilled and has no overrides; an event with no matching billing line is
\* unbilled and selected; an event on a draft invoice is drafted, unselected.
C7_ReconciledDefaults ==
    phase = "session" =>
        \A r \in MeetingRefs :
            LET m == MeetingOf(r)
                all == FilterCustomer(store, CustomerOf(r).id)
            IN /\ FreshMeeting(m)
               /\ (\A k \in DOMAIN all : ~Matches(all[k], m.id))
                     => (m.invoice_status = "not_invoiced" /\ m.selected)
               /\ (\E k \in DOMAIN all :
                       all[k].status = "draft" /\ Matches(all[k], m.id))
                     => (m.invoice_status = "drafted" /\ ~m.selected)

\* C7 as amended: the same, the last part for the invoices the lookup
\* returns: drafted when a draft invoice carries the id and no open, paid or
\* uncollectible invoice listed before it does; when the lookup fails the
\* Meeting is unbilled and selected.
C7_ReconciledDefaultsReturned ==
    phase = "session" =>
        \A r \in MeetingRefs :
            LET m == MeetingOf(r)
                all == FilterCustomer(store, CustomerOf(r).id)
                got == Returned(r)
            IN /\ FreshMeeting(m)
               /\ (\A k \in DOMAIN all : ~Matches(all[k], m.id))
                     => (m.invoice_status = "not_invoiced" /\ m.selected)
               /\ (\E k \in DOMAIN got :
                       /\ got[k].status = "draft"
                       /\ Matches(got[k], m.id)
                       /\ \A i \in 1..(k - 1) :
                             ~(/\ got[i].status \in {"open", "paid", "uncollectible"}
                               /\ Matches(got[i], m.id)))
                     => (m.invoice_status = "drafted" /\ ~m.selected)
               /\ CustomerOf(r).id \in lookup_down
                     => (m.invoice_status = "not_invoiced" /\ m.selected)

\* reconciliation produced an unbilled, selected Meeting and a drafted one
C7_Witness ==
    /\ phase = "session"
    /\ lookup_down = {}
    /\ \E r \in MeetingRefs :
          MeetingOf(r).invoice_status = "not_invoiced" /\ MeetingOf(r).selected
    /\ \E r \in MeetingRefs :
          MeetingOf(r).invoice_status = "drafted" /\ ~MeetingOf(r).selected

-----------------------------------------------------------------------------
(* The resolver on its own: SpecStatus *)

StatusLines ==
    {<<>>, <<OldLine(IdAlice1)>>, <<OldLine(IdBob4)>>,
     <<<<>>, OldLine(IdBob4), OldLine(IdAlice1)>>}

StatusInvoices ==
    {Invoice("cus_A", st, ls) : st \in InvoiceStatuses, ls \in StatusLines}

InitStatus ==
    /\ InitRun
    /\ include_all_meetings = FALSE
    /\ events = <<>>
    /\ cmd_limit = 0
    /\ lookup_down = {}
    /\ store \in SeqsUpTo(StatusInvoices, MaxStoreLen)

\* check_meeting_invoice_status(customer_id, meeting_id) on the store
ApplyStatus ==
    /\ phase = "start"
    /\ ret = None
    /\ \E mid \in {IdAlice1, IdBob4} :
         /\ arg' = Some(mid)
         /\ ret' = Some(check_meeting_invoice_status(store, lookup_down,
                                                      "cus_A", mid))
    /\ UNCHANGED <<phase, config, store, customers_with_meetings,
                   unassociated_meetings, meeting_map, unassociated_map,
                   edit_target, emission, rate_calls, cmds, runs>>

SpecStatus == InitStatus /\ [][ApplyStatus]_vars

\* the first invoice of the list, among those in the set of statuses, that
\* has a line carrying the id; 0 when there is none
FirstMatch(invoices, mid, statuses) ==
    LET I == {k \in DOMAIN invoices :
                 invoices[k].status \in statuses /\ Matches(invoices[k], mid)}
    IN IF I = {} THEN 0 ELSE CHOOSE k \in I : \A j \in I : k <= j

\* C4 as stated: the first invoice with a line carrying the id decides:
\* drafted if it is a draft, sent in any other state; not_invoiced iff no
\* invoice has such a line.
C4_FirstMatchDecides ==
    IsSet(ret) =>
        LET k == FirstMatch(store, Val(arg), InvoiceStatuses)
        IN Val(ret) = IF k = 0 THEN "not_invoiced"
                      ELSE IF store[k].status = "draft" THEN "drafted"
                      ELSE "sent"

\* C4 as amended: the first invoice in state draft, open, paid or
\* uncollectible with a line carrying the id decides; invoices in any other
\* state are passed over, and the answer is not_invoiced iff none decides.
C4_FirstRecognisedMatchDecides ==
    IsSet(ret) =>
        LET k == FirstMatch(store, Val(arg),
                            {"draft", "open", "paid", "uncollectible"})
        IN Val(ret) = IF k = 0 THEN "not_invoiced"
                      ELSE IF store[k].status = "draft" THEN "drafted"
                      ELSE "sent"

\* a paid invoice listed before a draft, both carrying the id: sent
C4_Witness ==
    /\ ret = Some("sent")
    /\ Len(store) = 2
    /\ store[1].status = "paid" /\ Matches(store[1], Val(arg))
    /\ store[2].status = "draft" /\ Matches(store[2], Val(arg))

-----------------------------------------------------------------------------
(* Successive runs over the same snapshot: SpecRuns *)

InitRuns ==
    /\ InitRun
    /\ include_all_meetings = TRUE
    /\ events = SessionEvents
    /\ cmd_limit = MaxCmdsRuns
    /\ lookup_down = {}
    /\ store = <<>>

\* the line items the run has written to the store
EmittedNow ==
    {<<calls[j].customer, Val(calls[j].id)>> :
        j \in {i \in ItemCalls : calls[i].ok}}

\* the program is started again: same roster, same calendar snapshot, the
\* billing store as the earlier runs left it
NewRun ==
    /\ phase \in {"returned", "exited", "crashed", "cancelled", "done"}
    /\ run < MaxRuns
    /\ run' = run + 1
    /\ prev_emitted' = prev_emitted \cup EmittedNow
    /\ phase' = "start"
    /\ customers_with_meetings' = <<>>
    /\ unassociated_meetings' = <<>>
    /\ meeting_map' = <<>>
    /\ unassociated_map' = <<>>
    /\ edit_target' = None
    /\ emit_cursor' = 0
    /\ created_invoices' = <<>>
    /\ calls' = <<>>
    /\ answered' = ""
    /\ rate_calls' = <<>>
    /\ cmds' = 0
    /\ UNCHANGED <<config, store, pure>>

SpecRuns == InitRuns /\ [][Next \/ NewRun]_vars

\* C2: a later run emits no line item for a customer and meeting that an
\* earlier run emitted (lookups work, the store holds what was emitted).
C2_NoDuplicateEmission ==
    (run > 1 /\ lookup_down = {}) =>
        \A j \in ItemCalls :
            <<calls[j].customer, Val(calls[j].id)>> \notin prev_emitted

-----------------------------------------------------------------------------
(* The session with its command lines on record: SpecCommands *)

InitCommands ==
    /\ phase = "start"
    /\ customers_with_meetings = <<>>
    /\ unassociated_meetings = <<>>
    /\ meeting_map = <<>>
    /\ unassociated_map = <<>>
    /\ edit_target = None
    /\ emit_cursor = 0
    /\ created_invoices = <<>>
    /\ calls = <<>>
    /\ answered = ""
    /\ rate_calls = <<>>
    /\ cmds = 0
    /\ run = 1
    /\ prev_emitted = {}
    /\ arg = Some(Command("python invoice_automation.py", NoNumber, 0, "", Empty))
    /\ ret = None
    /\ include_all_meetings = TRUE
    /\ events \in {SessionEvents, <<Event1, Event3>>}
    /\ cmd_limit = MaxCmdsLogged
    /\ lookup_down = {}
    /\ store \in SessionStores \ {<<>>}

SpecCommands == InitCommands /\ [][Next]_vars

\* the step is the session reading the command line c
Reads(c) == phase = "session" /\ arg' = Some(c)

-----------------------------------------------------------------------------
(* C11 *)

\* C11: after every step, every entry of the unassociated list with
\* selected = true carries an assigned customer; a U-toggle on an entry
\* without an assigned customer changes nothing and leaves selected false.
C11_UnassignedNeverSelected ==
    [][/\ \A i \in DOMAIN unassociated_meetings' :
             unassociated_meetings'[i].selected
                 => IsSet(unassociated_meetings'[i].assigned_customer)
       /\ \A u \in DOMAIN unassociated_map :
             (/\ Reads(Command("U", NoNumber, u, "", Empty))
              /\ ~IsSet(unassociated_meetings[unassociated_map[u]].assigned_customer))
             => /\ UNCHANGED <<customers_with_meetings, unassociated_meetings>>
                /\ ~unassociated_meetings'[unassociated_map[u]].selected
                /\ phase' = "session"]_vars

\* U1 was read for an entry without a customer, and the entry is unselected
C11_Witness ==
    /\ phase = "session"
    /\ arg = Some(Command("U", NoNumber, 1, "", Empty))
    /\ 1 \in DOMAIN unassociated_map
    /\ ~IsSet(unassociated_meetings[unassociated_map[1]].assigned_customer)
    /\ ~unassociated_meetings[unassociated_map[1]].selected

-----------------------------------------------------------------------------
(* C12 *)

\* C12: an assign of a listed unassociated meeting to a roster customer
\* appends to that customer's meetings (opening the customer's entry if there
\* was none) one Meeting with the id, title, date, time, base duration and
\* raw timestamps of the unassociated meeting, selected, unbilled, without
\* overrides, is_edited false, detection source manual_assignment and the
\* manually-assigned flag set; every other Meeting is as it was.
C12_AssignAppendsMeeting ==
    [][\A u \in DOMAIN unassociated_map, email \in EmailInputs,
          c \in DOMAIN Roster :
          (/\ Reads(Command("assign", NoNumber, u, email, Empty))
           /\ Lower(Roster[c].email) = Lower(email))
          => LET um == unassociated_meetings[unassociated_map[u]]
                 had == {k \in DOMAIN customers_with_meetings :
                            customers_with_meetings[k].customer_id = Roster[c].id}
                 j == IF had = {} THEN Len(customers_with_meetings) + 1
                      ELSE CHOOSE k \in had : TRUE
                 old == IF had = {} THEN <<>>
                        ELSE customers_with_meetings[j].meetings
                 new == customers_with_meetings'[j].meetings
                 m == new[Len(old) + 1]
             IN /\ DOMAIN customers_with_meetings' =
                       DOMAIN customers_with_meetings \cup {j}
                /\ \A k \in DOMAIN customers_with_meetings :
                      k # j => customers_with_meetings'[k]
                                   = customers_with_meetings[k]
                /\ customers_with_meetings'[j].customer = Roster[c]
                /\ Len(new) = Len(old) + 1
                /\ \A q \in DOMAIN old : new[q] = old[q]
                /\ m.id = um.id
                /\ m.summary = um.summary
                /\ m.date = um.date
                /\ m.time = um.time
                /\ m.duration = um.duration
                /\ m.start_time = um.start_time
                /\ m.end_time = um.end_time
                /\ m.selected
                /\ m.invoice_status = "not_invoiced"
                /\ m.edited_start_time = None
                /\ m.edited_duration = None
                /\ m.custom_rate = None
                /\ ~m.is_edited
                /\ m.detection_source = "manual_assignment"
                /\ m.is_manually_assigned]_vars

\* U1 was assigned to bob, who had no meetings: a new entry with one Meeting,
\* next to alice's entry
C12_Witness ==
    /\ phase = "session"
    /\ arg = Some(Command("assign", NoNumber, 1, "Bob@X.com", Empty))
    /\ Len(customers_with_meetings) = 2
    /\ customers_with_meetings[2].customer_id = "cus_B"
    /\ Len(customers_with_meetings[2].meetings) = 1
    /\ customers_with_meetings[2].meetings[1].is_manually_assigned
    /\ ~customers_with_meetings[1].meetings[1].is_manually_assigned

-----------------------------------------------------------------------------
(* C13 *)

\* the Meetings that came from an assign of the unassociated meeting um
ConvertedFrom(um) ==
    {r \in MeetingRefs :
        MeetingOf(r).is_manually_assigned /\ MeetingOf(r).id = um.id}

\* C13: an unassociated meeting that was assigned is no longer in the
\* unassociated list, so no entry of the list carries a customer or has a
\* Meeting made from it, and no unassociated meeting is converted into more
\* than one Meeting.
C13_AssignedLeavesList ==
    /\ \A i \in DOMAIN unassociated_meetings :
          /\ ~IsSet(unassociated_meetings[i].assigned_customer)
          /\ ConvertedFrom(unassociated_meetings[i]) = {}
    /\ \A k \in DOMAIN events :
          Cardinality(ConvertedFrom(UnassociatedInfo(events[k], <<>>))) <= 1

-----------------------------------------------------------------------------
(* C14 *)

\* the number text names no listed meeting
NotListed(text) ==
    int(text).tag = "error" \/ int(text).val \notin DOMAIN meeting_map

\* the rate text is missing, unparseable or out of range
BadRate(text) ==
    text = Empty \/ text.kind # "num" \/ text.a <= 0 \/ text.a > MaxRate

\* the command line c is one the session has to reject in the current state
MustReject(c) ==
    \/ /\ c.cmd = "toggle"
       /\ \/ NotListed(c.num)
          \/ MeetingAt(customers_with_meetings,
                       meeting_map[int(c.num).val]).invoice_status
                 \in {"drafted", "sent"}
    \/ c.cmd \in {"edit", "time"} /\ NotListed(c.num)
    \/ c.cmd = "rate" /\ (NotListed(c.num) \/ BadRate(c.text))
    \/ c.cmd = "U" /\ c.n \notin DOMAIN unassociated_map
    \/ /\ c.cmd = "assign"
       /\ \/ c.n \notin DOMAIN unassociated_map
          \/ \A k \in DOMAIN Roster : Lower(Roster[k].email) # Lower(c.email)
    \/ c.cmd = ""

\* C14: a rejected command (a toggle on a billed meeting; a toggle, edit,
\* time or rate with a number that is not listed; a U-toggle or assign with
\* an index that does not exist; an assign to an e-mail not in the roster; a
\* rate with a missing, unparseable or out-of-range amount; an unrecognised
\* command) leaves every Meeting and every unassociated meeting as it was,
\* and the session is at its prompt again.
C14_RejectedChangesNothing ==
    [][(phase = "session" /\ IsSet(arg') /\ MustReject(Val(arg')))
       => /\ UNCHANGED <<customers_with_meetings, unassociated_meetings>>
          /\ phase' = "session"]_vars

-----------------------------------------------------------------------------
(* C15 *)

\* the customers and their lists have the same shape before and after the step
SameShape ==
    /\ DOMAIN customers_with_meetings' = DOMAIN customers_with_meetings
    /\ \A k \in DOMAIN customers_with_meetings :
          /\ customers_with_meetings'[k].customer
                 = customers_with_meetings[k].customer
          /\ DOMAIN customers_with_meetings'[k].meetings
                 = DOMAIN customers_with_meetings[k].meetings

\* the Meeting r after the step
MeetingOfNext(r) == customers_with_meetings'[r[1]].meetings[r[2]]

\* every Meeting after the step is the Meeting before it with selected set to
\* value if it was unbilled, and untouched if it was drafted or sent
BulkSets(value) ==
    /\ SameShape
    /\ \A r \in MeetingRefs :
          MeetingOfNext(r) =
              IF MeetingOf(r).invoice_status = "not_invoiced"
              THEN [MeetingOf(r) EXCEPT !.selected = value]
              ELSE MeetingOf(r)
    /\ UNCHANGED unassociated_meetings

\* C15: after 'all' every unbilled Meeting is selected, after 'none' every
\* unbilled Meeting is unselected; a drafted or sent Meeting keeps every
\* field, and every Meeting keeps every field other than selected.
C15_BulkTouchesUnbilledOnly ==
    [][/\ Reads(Command("all", NoNumber, 0, "", Empty)) => BulkSets(TRUE)
       /\ Reads(Command("none", NoNumber, 0, "", Empty)) => BulkSets(FALSE)]_vars

\* 'all' after a rate command: a billed Meeting is still unselected, and an
\* unbilled one is selected and has kept its custom rate
C15_Witness ==
    /\ phase = "session"
    /\ arg = Some(Command("all", NoNumber, 0, "", Empty))
    /\ cmds = 2
    /\ \E r \in MeetingRefs :
          MeetingOf(r).invoice_status \in {"drafted", "sent"}
          /\ ~MeetingOf(r).selected
    /\ \E r \in MeetingRefs :
          /\ MeetingOf(r).invoice_status = "not_invoiced"
          /\ MeetingOf(r).selected
          /\ IsSet(MeetingOf(r).custom_rate)

-----------------------------------------------------------------------------
(* C16 *)

\* the customers' lists with the selected flag of the Meeting at ref flipped
Flipped(cwm, ref) ==
    [k \in DOMAIN cwm |->
        [cwm[k] EXCEPT !.meetings =
            [i \in DOMAIN cwm[k].meetings |->
                IF cwm[k].customer_id = ref[1] /\ i = ref[2]
                THEN [cwm[k].meetings[i] EXCEPT !.selected = ~@]
                ELSE cwm[k].meetings[i]]]]

\* C16: a toggle on a listed unbilled Meeting flips the selected flag of that
\* Meeting and changes nothing else, the numbering included, so that the
\* same toggle read again gives back the state before the first.
C16_ToggleFlipsOne ==
    [][\A n \in DOMAIN meeting_map :
          (/\ Reads(Command("toggle", Decimal(n), 0, "", Empty))
           /\ MeetingAt(customers_with_meetings, meeting_map[n]).invoice_status
                  = "not_invoiced")
          => /\ customers_with_meetings'
                    = Flipped(customers_with_meetings, meeting_map[n])
             /\ UNCHANGED <<unassociated_meetings, meeting_map,
                            unassociated_map, phase>>
             /\ SetMeeting(customers_with_meetings', meeting_map'[n],
                    ToggleMeeting(MeetingAt(customers_with_meetings',
                                            meeting_map'[n])))
                    = customers_with_meetings]_vars

\* a toggle read as the second command put an unbilled Meeting back to
\* selected, with every Meeting as reconciliation made it
C16_Witness ==
    /\ phase = "session"
    /\ cmds = 2
    /\ \E n \in DOMAIN meeting_map :
          /\ arg = Some(Command("toggle", Decimal(n), 0, "", Empty))
          /\ MeetingAt(customers_with_meetings, meeting_map[n]).invoice_status
                 = "not_invoiced"
          /\ MeetingAt(customers_with_meetings, meeting_map[n]).selected
          /\ ~MeetingAt(customers_with_meetings, meeting_map[n]).is_manually_assigned
          /\ \A r \in MeetingRefs : ~IsSet(MeetingOf(r).custom_rate)
                                     /\ ~MeetingOf(r).is_edited

-----------------------------------------------------------------------------
(* C17 *)

\* the Meeting r is the one edit_meeting_details works on
IsEditTarget(r) ==
    /\ customers_with_meetings[r[1]].customer_id = edit_target[1]
    /\ r[2] = edit_target[2]

\* C17: 'edit n' and 'time n' are accepted for a listed Meeting of any
\* invoice status, and the edit changes only edited_start_time,
\* edited_duration and is_edited of that Meeting: its other fields, every
\* other Meeting and the unassociated list are as they were.
C17_EditTouchesOverridesOnly ==
    [][/\ \A word \in {"edit", "time"}, n \in DOMAIN meeting_map :
             Reads(Command(word, Decimal(n), 0, "", Empty))
             => /\ phase' = "edit_time"
                /\ edit_target' = meeting_map[n]
                /\ UNCHANGED <<customers_with_meetings, unassociated_meetings>>
       /\ phase \in {"edit_time", "edit_duration"}
             => /\ SameShape
                /\ UNCHANGED unassociated_meetings
                /\ \A r \in MeetingRefs :
                      MeetingOfNext(r) =
                          IF IsEditTarget(r)
                          THEN [MeetingOf(r) EXCEPT
                                   !.edited_start_time =
                                       MeetingOfNext(r).edited_start_time,
                                   !.edited_duration =
                                       MeetingOfNext(r).edited_duration,
                                   !.is_edited = MeetingOfNext(r).is_edited]
                          ELSE MeetingOf(r)]_vars

\* a billed Meeting with a custom rate was edited: it is still unselected,
\* still billed, and has kept its rate
C17_Witness ==
    /\ phase = "session"
    /\ IsSet(arg)
    /\ Val(arg).cmd = "Duration in hours"
    /\ \E r \in MeetingRefs :
          /\ MeetingOf(r).invoice_status \in {"drafted", "sent"}
          /\ MeetingOf(r).is_edited
          /\ IsSet(MeetingOf(r).edited_start_time)
          /\ IsSet(MeetingOf(r).custom_rate)
          /\ ~MeetingOf(r).selected

-----------------------------------------------------------------------------
(* C18 *)

\* the customers' lists with custom_rate of the Meeting at ref set to rate
WithRate(cwm, ref, rate) ==
    [k \in DOMAIN cwm |->
        [cwm[k] EXCEPT !.meetings =
            [i \in DOMAIN cwm[k].meetings |->
                IF cwm[k].customer_id = ref[1] /\ i = ref[2]
                THEN [cwm[k].meetings[i] EXCEPT !.custom_rate = Some(rate)]
                ELSE cwm[k].meetings[i]]]]

\* C18: 'rate n amount' with a listed n and an amount in (0, 10000] sets
\* custom_rate of Meeting n to the amount and changes nothing else.
C18_RateSetsCustomRateOnly ==
    [][\A n \in DOMAIN meeting_map, text \in RateInputs :
          (/\ Reads(Command("rate", Decimal(n), 0, "", text))
           /\ ~BadRate(text))
          => /\ customers_with_meetings'
                    = WithRate(customers_with_meetings, meeting_map[n], text.a)
             /\ UNCHANGED <<unassociated_meetings, meeting_map,
                            unassociated_map, phase, rate_calls>>]_vars

\* a rate was set on a Meeting edited before: the overrides and the flag of
\* the edit are still there
C18_Witness ==
    /\ phase = "session"
    /\ \E n \in DOMAIN meeting_map :
          LET m == MeetingAt(customers_with_meetings, meeting_map[n])
          IN /\ arg = Some(Command("rate", Decimal(n), 0, "", Num(30000)))
             /\ m.custom_rate = Some(30000)
             /\ m.is_edited
             /\ IsSet(m.edited_duration)

-----------------------------------------------------------------------------
(* C19 *)

\* the customers with meetings that have the e-mail, compared in lower case
WithEmail(email) ==
    {k \in DOMAIN customers_with_meetings :
        Lower(customers_with_meetings[k].customer.email) = Lower(email)}

-----------------------------------------------------------------------------
(* C20 *)

\* customers_with_meetings is the result cwm of a reconciliation in which no
\* lookup fails, but for the status (and the selection that follows from it)
\* of the Meetings of the customers whose lookup fails, which is unbilled
SameButLookups(cwm) ==
    /\ Len(customers_with_meetings) = Len(cwm)
    /\ \A k \in DOMAIN cwm :
          /\ customers_with_meetings[k].customer_id = cwm[k].customer_id
          /\ Len(customers_with_meetings[k].meetings) = Len(cwm[k].meetings)
    /\ \A r \in MeetingRefs :
          LET m == MeetingOf(r)
              w == cwm[r[1]].meetings[r[2]]
          IN /\ m.id = w.id
             /\ m.start_time = w.start_time
             /\ m.duration = w.duration
             /\ IF CustomerOf(r).id \in lookup_down
                THEN m.invoice_status = "not_invoiced"
                ELSE /\ m.invoice_status = w.invoice_status
                     /\ m.selected = w.selected

\* C20: when the invoice lookup fails for a customer, reconciliation still
\* handles every event: it ends at the session with the Meetings and the
\* unassociated meetings it would have produced without the failure, the
\* Meetings of that customer unbilled and the Meetings of every other
\* customer with the status and the selection they would have had; it ends
\* without a session only if it would have done so without the failure.
C20_LookupFailureIsPerCustomer ==
    phase # "start" =>
        \E orders \in IterationOrders(events, Roster) :
            LET ok == find_customers_with_meetings(Roster, events,
                          include_all_meetings, orders, store, {})
            IN IF phase = "session"
               THEN /\ SameButLookups(ok.cwm)
                    /\ unassociated_meetings = ok.un
               ELSE ok.cwm = <<>>

\* the lookup failed for cus_A only: a Meeting of cus_A that a stored invoice
\* names is unbilled, and a Meeting of cus_B is drafted and unselected
C20_Witness ==
    /\ phase = "session"
    /\ lookup_down = {"cus_A"}
    /\ \E r \in MeetingRefs :
          /\ CustomerOf(r).id = "cus_A"
          /\ MeetingOf(r).invoice_status = "not_invoiced"
          /\ check_meeting_invoice_status(store, {}, "cus_A", MeetingOf(r).id)
                 # "not_invoiced"
    /\ \E r \in MeetingRefs :
          /\ CustomerOf(r).id = "cus_B"
          /\ MeetingOf(r).invoice_status = "drafted"
          /\ ~MeetingOf(r).selected

-----------------------------------------------------------------------------
(* C21 *)

\* the calls made for the customer at position k of customers_with_meetings
CallsFor(k) ==
    {j \in DOMAIN calls :
        calls[j].customer = customers_with_meetings[k].customer_id}

\* the invoice of the customer at position k and a line item for each of the
\* customer's selected meetings were created
FullyCreated(k) ==
    LET entry == customers_with_meetings[k]
    IN /\ \E i \in DOMAIN entry.meetings : entry.meetings[i].selected
       /\ \E j \in CallsFor(k) : calls[j].op = "Invoice.create" /\ calls[j].ok
       /\ \A i \in DOMAIN entry.meetings :
             entry.meetings[i].selected
             => \E j \in CallsFor(k) : /\ calls[j].op = "InvoiceItem.create"
                                       /\ calls[j].meeting = i
                                       /\ calls[j].ok

\* C21: a step of the emission changes no Meeting and goes on to the next
\* customer whatever the outcome of its calls, and when the emission is over
\* created_invoices holds one invoice for each customer whose invoice and
\* line items were all created, and no other.
C21_FailureIsPerCustomer ==
    /\ [][phase = "emit"
          => /\ UNCHANGED <<customers_with_meetings, unassociated_meetings>>
             /\ emit_cursor' = emit_cursor + 1
             /\ phase' = IF emit_cursor < Len(customers_with_meetings)
                         THEN "emit" ELSE "done"]_vars
    /\ [](phase = "done"
          => /\ Len(created_invoices)
                  = Cardinality({k \in DOMAIN customers_with_meetings :
                                    FullyCreated(k)})
             /\ \A k \in DOMAIN customers_with_meetings :
                   FullyCreated(k)
                   <=> \E n \in DOMAIN created_invoices :
                          created_invoices[n]
                              = customers_with_meetings[k].customer_id)

\* the emission is over: a call failed for the first customer, after its
\* invoice was created, and the invoice of the second customer is reported
C21_Witness ==
    /\ phase = "done"
    /\ Len(customers_with_meetings) = 2
    /\ \E j \in CallsFor(1) : calls[j].op = "InvoiceItem.create" /\ ~calls[j].ok
    /\ ~FullyCreated(1)
    /\ FullyCreated(2)
    /\ Len(created_invoices) = 1

-----------------------------------------------------------------------------
(* The matching of events to customers on its own: SpecMatch *)

\* a second Stripe customer with the e-mail of CustA, and a customer whose
\* e-mail and name are parts of another address
CustA2 == [id |-> "cus_A2", email |-> "alice@x.com", name |-> "Alice",
           metadata |-> None]
CustAnn == [id |-> "cus_N", email |-> "ann@x.com", name |-> "Ann",
            metadata |-> None]
MatchCustomers == {CustA, CustB, CustA2, CustAnn}

\* alice by name and address in the description only
EventMention ==
    [summary |-> "Kickoff",
     start |-> Some(Stamp(17, 600)),
     end |-> Some(Stamp(17, 660)),
     attendees |-> <<"">>,
     organizer |-> None,
     description |-> <<Tok("word", "Alice"), Tok("email", "alice@x.com")>>]
\* alice as attendee, as organizer and in the description
EventChannels ==
    [summary |-> "Planning",
     start |-> Some(Stamp(17, 780)),
     end |-> Some(Stamp(17, 840)),
     attendees |-> <<"alice@x.com">>,
     organizer |-> Some("Alice@X.com"),
     description |-> <<Tok("email", "Alice@X.com"), Tok("email", "bob@x.com")>>]
\* an address of which ann's name and address are parts
EventJoann ==
    [summary |-> "Demo",
     start |-> Some(Stamp(18, 600)),
     end |-> Some(Stamp(18, 630)),
     attendees |-> <<>>,
     organizer |-> None,
     description |-> <<Tok("email", "joann@x.com")>>]
\* the name and the address a hundred characters apart
EventFar ==
    [summary |-> "Retro",
     start |-> Some(Stamp(18, 780)),
     end |-> Some(Stamp(18, 840)),
     attendees |-> <<>>,
     organizer |-> None,
     description |-> <<Tok("word", "Ann"), Tok("filler", ""),
                       Tok("email", "joann@x.com")>>]
\* an event without an end
EventNoEnd ==
    [summary |-> "Hold",
     start |-> Some(Stamp(19, 600)),
     end |-> None,
     attendees |-> <<"alice@x.com">>,
     organizer |-> None,
     description |-> <<>>]
MatchCalendar == {Event1, Event2, Event3, EventMention, EventChannels,
                 EventJoann, EventFar, EventNoEnd}

\* the sequences of up to n members of S, none of them twice
DistinctSeqs(S, n) ==
    {q \in SeqsUpTo(S, n) : \A i, j \in DOMAIN q : i # j => q[i] # q[j]}

\* the roster is the argument; customers have distinct Stripe ids
InitMatch ==
    /\ phase = "start"
    /\ customers_with_meetings = <<>>
    /\ unassociated_meetings = <<>>
    /\ meeting_map = <<>>
    /\ unassociated_map = <<>>
    /\ edit_target = None
    /\ emit_cursor = 0
    /\ created_invoices = <<>>
    /\ calls = <<>>
    /\ answered = ""
    /\ rate_calls = <<>>
    /\ cmds = 0
    /\ run = 1
    /\ prev_emitted = {}
    /\ ret = None
    /\ include_all_meetings \in BOOLEAN
    /\ events \in DistinctSeqs(MatchCalendar, MaxEvents)
    /\ cmd_limit = 0
    /\ lookup_down = {}
    /\ store = <<>>
    /\ arg \in {Some(q) : q \in DistinctSeqs(MatchCustomers, MaxRoster)}

\* find_customers_with_meetings(customers, events, include_all_meetings)
ApplyMatch ==
    /\ phase = "start"
    /\ ret = None
    /\ \E orders \in IterationOrders(events, Val(arg)) :
         ret' = Some(find_customers_with_meetings(Val(arg), events,
                         include_all_meetings, orders, store, lookup_down))
    /\ UNCHANGED <<phase, config, store, customers_with_meetings,
                   unassociated_meetings, meeting_map, unassociated_map,
                   edit_target, emission, rate_calls, cmds, runs, arg>>

SpecMatch == InitMatch /\ [][ApplyMatch]_vars

-----------------------------------------------------------------------------
(* C22 *)

\* the Meetings of the customer in the result that stem from the event
MeetingsFrom(cwm, customer_id, event) ==
    {r \in (DOMAIN cwm) \X (1..MaxEvents + 2) :
        /\ cwm[r[1]].customer_id = customer_id
        /\ r[2] \in DOMAIN cwm[r[1]].meetings
        /\ cwm[r[1]].meetings[r[2]].summary = event.summary
        /\ Some(cwm[r[1]].meetings[r[2]].start_time) = event.start}

\* some participant e-mail of the event is the customer's lower-cased e-mail
IsParticipant(customer, event, customers) ==
    Lower(customer.email) \in ParticipantEmails(event, customers)

\* C22 as stated: for every roster and event list, the result holds exactly
\* one Meeting for each pair (event, customer) with a participant e-mail of
\* the event equal to the customer's e-mail, and none for any other pair.
C22_OneMeetingPerPair ==
    ret # None =>
        \A c \in DOMAIN Val(arg), k \in DOMAIN events :
            Cardinality(MeetingsFrom(Val(ret).cwm, Val(arg)[c].id, events[k]))
                = IF IsParticipant(Val(arg)[c], events[k], Val(arg))
                  THEN 1 ELSE 0

\* the customer is the last of the roster with its e-mail
LastWithEmail(customers, c) ==
    \A d \in DOMAIN customers :
        customers[d].email = customers[c].email => d <= c

\* C22 as amended: the same for the events that have a start and an end and
\* the customers that are the last of the roster with their e-mail; an event
\* without a start or an end, and a customer whose e-mail a later customer
\* of the roster has too, get no Meeting.
C22_OneMeetingPerKeyedPair ==
    ret # None =>
        \A c \in DOMAIN Val(arg), k \in DOMAIN events :
            Cardinality(MeetingsFrom(Val(ret).cwm, Val(arg)[c].id, events[k]))
                = IF /\ IsSet(events[k].start)
                     /\ IsSet(events[k].end)
                     /\ LastWithEmail(Val(arg), c)
                     /\ IsParticipant(Val(arg)[c], events[k], Val(arg))
                  THEN 1 ELSE 0

\* an event with two customers gave each a Meeting, and an event that names
\* alice as attendee, as organizer and in its description gave her one
C22_Witness ==
    /\ ret # None
    /\ Val(arg) = <<CustA, CustB>>
    /\ events = <<Event2, EventChannels>>
    /\ Cardinality(MeetingsFrom(Val(ret).cwm, "cus_A", Event2)) = 1
    /\ Cardinality(MeetingsFrom(Val(ret).cwm, "cus_B", Event2)) = 1
    /\ Cardinality(MeetingsFrom(Val(ret).cwm, "cus_A", EventChannels)) = 1

-----------------------------------------------------------------------------
(* C23 *)

\* the entries of the unassociated list that stem from the event
UnassociatedFrom(un, event) ==
    {i \in DOMAIN un : /\ un[i].summary = event.summary
                       /\ Some(un[i].start_time) = event.start}

\* a participant e-mail of the event is the e-mail of a roster customer
MatchesRoster(event, customers) ==
    \E e \in ParticipantEmails(event, customers), c \in DOMAIN customers :
        customers[c].email = e

\* C23: an event with a start and an end gives an unassociated meeting iff
\* --include-all-meetings is on and no participant e-mail of the event is a
\* roster customer's e-mail; it gives one at most, the entry is unselected,
\* has no assigned customer and is not manually assigned, and an event that
\* matched a customer gives none.
C23_UnassociatedIffUnmatched ==
    ret # None =>
        /\ \A k \in DOMAIN events :
              (IsSet(events[k].start) /\ IsSet(events[k].end))
              => Cardinality(UnassociatedFrom(Val(ret).un, events[k]))
                     = IF /\ include_all_meetings
                          /\ ~MatchesRoster(events[k], Val(arg))
                       THEN 1 ELSE 0
        /\ \A i \in DOMAIN Val(ret).un :
              /\ Val(ret).un[i].selected = FALSE
              /\ Val(ret).un[i].assigned_customer = None
              /\ Val(ret).un[i].is_manually_assigned = FALSE
              /\ \E k \in DOMAIN events :
                    /\ i \in UnassociatedFrom(Val(ret).un, events[k])
                    /\ ~MatchesRoster(events[k], Val(arg))

\* with --include-all-meetings, the event of carol is in the unassociated
\* list and the event of alice, who is in the roster, is not
C23_Witness ==
    /\ ret # None
    /\ include_all_meetings
    /\ events = <<Event1, Event3>>
    /\ Val(arg) = <<CustA, CustB>>
    /\ Cardinality(UnassociatedFrom(Val(ret).un, Event3)) = 1
    /\ UnassociatedFrom(Val(ret).un, Event1) = {}
    /\ Len(Val(ret).un) = 1

-----------------------------------------------------------------------------
(* C24 *)

\* the e-mails of the attendee and organizer fields of the event
ListedEmails(event) == AttendeeEmails(event) \cup OrganizerEmails(event)

\* the detection sources of the Meetings of the customer that stem from the event
SourcesFrom(cwm, customer_id, event) ==
    {cwm[r[1]].meetings[r[2]].detection_source :
        r \in MeetingsFrom(cwm, customer_id, event)}

-----------------------------------------------------------------------------
(* The amount of a line item on its own: SpecAmount *)

\* effective durations and rates within the bounds of the parsers
AmountDurations == (1..MaxAmountDuration) \cup {57, 150, MaxDuration}
AmountRates == (1..MaxAmountRate) \cup {3333, 10000, 100000}

\* the argument is the pair of overrides of a meeting
InitAmount ==
    /\ phase = "start"
    /\ customers_with_meetings = <<>>
    /\ unassociated_meetings = <<>>
    /\ meeting_map = <<>>
    /\ unassociated_map = <<>>
    /\ edit_target = None
    /\ emit_cursor = 0
    /\ created_invoices = <<>>
    /\ calls = <<>>
    /\ answered = ""
    /\ rate_calls = <<>>
    /\ cmds = 0
    /\ run = 1
    /\ prev_emitted = {}
    /\ ret = None
    /\ include_all_meetings = FALSE
    /\ events = <<Event1>>
    /\ cmd_limit = 0
    /\ lookup_down = {}
    /\ store = <<>>
    /\ arg \in {Some([edited_duration |-> d, custom_rate |-> r]) :
                   d \in {None} \cup {Some(x) : x \in AmountDurations},
                   r \in {None} \cup {Some(x) : x \in AmountRates}}

\* the Meeting of Event1 with the overrides of the argument
AmountMeeting ==
    [MeetingInfo(Event1, "alice@x.com", CustA, store, lookup_down, Roster)
        EXCEPT !.edited_duration = Val(arg).edited_duration,
               !.custom_rate = Val(arg).custom_rate,
               !.synopsis = "notes"]

\* the amount= argument of stripe.InvoiceItem.create for that Meeting
ApplyAmount ==
    /\ phase = "start"
    /\ ret = None
    /\ ret' = Some(ItemCall("cus_A", 1, AmountMeeting,
                            get_customer_hourly_rate(CustA, DefaultHourlyRate).val,
                            TRUE).amount)
    /\ UNCHANGED <<phase, config, store, customers_with_meetings,
                   unassociated_meetings, meeting_map, unassociated_map,
                   edit_target, emission, rate_calls, cmds, runs, arg>>

SpecAmount == InitAmount /\ [][ApplyAmount]_vars

-----------------------------------------------------------------------------
(* C25 *)

\* x units of 1/q, rounded half-up to whole units
RoundHalfUp(x, q) == (2 * x + q) \div (2 * q)

\* C25: the minor-unit amount sent for a line item is the effective duration
\* times the effective rate, rounded half-up to the cent.
C25_AmountRoundsHalfUp ==
    ret # None =>
        Val(ret) = RoundHalfUp(
                       effective_duration(AmountMeeting)
                       * effective_rate(AmountMeeting,
                             get_customer_hourly_rate(CustA, DefaultHourlyRate).val),
                       100)

-----------------------------------------------------------------------------
(* C26 *)

\* the base data of a Meeting
BaseData(m) ==
    <<m.id, m.invoice_status, m.date, m.time, m.duration, m.start_time,
      m.end_time>>

\* every Meeting there is before the step is there after it, at its place
\* and with its base data
BaseDataKept ==
    \A r \in MeetingRefs :
        /\ r[1] \in DOMAIN customers_with_meetings'
        /\ customers_with_meetings'[r[1]].customer_id
               = customers_with_meetings[r[1]].customer_id
        /\ r[2] \in DOMAIN customers_with_meetings'[r[1]].meetings
        /\ BaseData(MeetingOfNext(r)) = BaseData(MeetingOf(r))

\* the id is the identity of a participant e-mail of a calendar event, of
\* the start of the event and of its title
IdOfParticipant(m) ==
    \E k \in DOMAIN events :
        /\ events[k].start = Some(m.start_time)
        /\ events[k].summary = m.summary
        /\ \E e \in ParticipantEmails(events[k], Roster) :
              m.id = generate_meeting_id(e, m.start_time, m.summary)

\* C26 as stated: no step of the session, the synopsis entry, the
\* confirmation or the emission changes the base data of a Meeting, and the
\* id of every Meeting is the identity of (participant e-mail, start, title).
C26_BaseDataFrozen ==
    /\ [][phase # "start" => BaseDataKept]_vars
    /\ [](\A r \in MeetingRefs : IdOfParticipant(MeetingOf(r)))

\* C26 as amended: the same frame; the id of a Meeting made by
\* reconciliation is the identity of (the customer's e-mail, which is a
\* participant e-mail, start, title), and the id of a Meeting made by
\* 'assign' is the id of the unassociated meeting it was made from, the
\* identity of ("unassociated", start, title).
C26_BaseDataFrozenIdByOrigin ==
    /\ [][phase # "start" => BaseDataKept]_vars
    /\ [](\A r \in MeetingRefs :
            LET m == MeetingOf(r)
            IN IF m.is_manually_assigned
               THEN m.id = generate_meeting_id("unassociated", m.start_time,
                                               m.summary)
               ELSE /\ IdOfParticipant(m)
                    /\ m.id = generate_meeting_id(CustomerOf(r).email,
                                                  m.start_time, m.summary))

\* a Meeting with both overrides and a custom rate went through the
\* emission, and a Meeting made by 'assign' is there too
C26_Witness ==
    /\ phase = "done"
    /\ \E r \in MeetingRefs :
          /\ IsSet(MeetingOf(r).edited_start_time)
          /\ IsSet(MeetingOf(r).edited_duration)
          /\ MeetingOf(r).duration # Val(MeetingOf(r).edited_duration)
          /\ IdOfParticipant(MeetingOf(r))
    /\ \E r \in MeetingRefs : MeetingOf(r).is_manually_assigned

-----------------------------------------------------------------------------
(* The three parsers on their own: SpecParse *)

\* numbers typed, in hundredths: below, at and above the ends of both ranges
DecimalValues ==
    {0 - 100, 0, 1, 250, MaxDuration, MaxDuration + 1, MaxRate, MaxRate + 1}
DecimalTexts ==
    {Decorated(v, prefix, commas, suffix, padded) :
        v \in DecimalValues, prefix \in {"", "$"}, commas \in BOOLEAN,
        suffix \in DurationSuffixes \cup {"", "hrs"}, padded \in BOOLEAN}
ClockMinutes == {0, 5, 59, 60}
TimeTexts ==
    {Clock(h, m) : h \in 0..MaxClockHour, m \in ClockMinutes}
    \cup {Num(100 * h) : h \in 0..MaxClockHour}
    \cup {Clock12(h, m, pm, spaced, upper) :
             h \in 0..MaxHour12, m \in ClockMinutes, pm \in BOOLEAN,
             spaced \in BOOLEAN, upper \in BOOLEAN}
    \cup {Hour12Text(h, pm, spaced, upper) :
             h \in 0..MaxHour12, pm \in BOOLEAN, spaced \in BOOLEAN,
             upper \in BOOLEAN}
    \cup {ClockSeconds(14, 30)}
ParserTexts ==
    DecimalTexts \cup TimeTexts
    \cup {Empty, Blank, Original, Junk, NanText, InfText, SplitByH(1500)}

\* the argument is the parser and the text given to it
InitParse ==
    /\ phase = "start"
    /\ customers_with_meetings = <<>>
    /\ unassociated_meetings = <<>>
    /\ meeting_map = <<>>
    /\ unassociated_map = <<>>
    /\ edit_target = None
    /\ emit_cursor = 0
    /\ created_invoices = <<>>
    /\ calls = <<>>
    /\ answered = ""
    /\ rate_calls = <<>>
    /\ cmds = 0
    /\ run = 1
    /\ prev_emitted = {}
    /\ ret = None
    /\ include_all_meetings = FALSE
    /\ events = <<>>
    /\ cmd_limit = 0
    /\ lookup_down = {}
    /\ store = <<>>
    /\ arg \in {Some([fn |-> f, text |-> t]) :
                   f \in {"parse_time_input", "parse_duration_input",
                          "validate_hourly_rate"},
                   t \in ParserTexts}

ParseFrame ==
    UNCHANGED <<phase, config, store, customers_with_meetings,
                unassociated_meetings, meeting_map, unassociated_map,
                edit_target, emission, rate_calls, cmds, runs, arg>>

ApplyParseTime ==
    /\ ret = None
    /\ Val(arg).fn = "parse_time_input"
    /\ ret' = Some(parse_time_input(Val(arg).text))
    /\ ParseFrame

ApplyParseDuration ==
    /\ ret = None
    /\ Val(arg).fn = "parse_duration_input"
    /\ ret' = Some(parse_duration_input(Val(arg).text))
    /\ ParseFrame

ApplyValidateRate ==
    /\ ret = None
    /\ Val(arg).fn = "validate_hourly_rate"
    /\ ret' = Some(validate_hourly_rate(Val(arg).text))
    /\ ParseFrame

NextParse == ApplyParseTime \/ ApplyParseDuration \/ ApplyValidateRate

SpecParse == InitParse /\ [][NextParse]_vars

\* the parser fn was applied to the text
Parsed(fn) == ret # None /\ Val(arg).fn = fn

-----------------------------------------------------------------------------
(* C27 *)

\* the text is a decimal number, with or without one of the units h, hr,
\* hour, hours behind it and blanks around it
IsDurationText(text) ==
    \/ text.kind = "num"
    \/ /\ text.kind = "decimal"
       /\ text.prefix = ""
       /\ ~text.commas
       /\ text.suffix \in {"", "h", "hr", "hour", "hours"}

\* C27: parse_duration_input returns d for a decimal d in (0, 24], with or
\* without a unit and blanks; raises the range message for d <= 0 and for
\* d > 24; raises the parse message for text that is not a decimal; returns
\* None for empty text and for blanks.
C27_DurationParser ==
    Parsed("parse_duration_input") =>
        LET text == Val(arg).text
        IN Val(ret) =
               IF text.kind \in {"empty", "blank"} THEN Keep
               ELSE IF ~IsDurationText(text)
                    THEN Raise("Unable to parse duration")
               ELSE IF text.a <= 0 \/ text.a > 2400
                    THEN Raise("Duration must be between 0 and 24 hours")
               ELSE Ok(text.a)

-----------------------------------------------------------------------------
(* C28 *)

\* the text is a decimal number, with or without "$", thousands separators
\* and blanks around it
IsRateText(text) ==
    \/ text.kind = "num"
    \/ text.kind = "decimal" /\ text.suffix = ""

\* C28: validate_hourly_rate returns r for a decimal r in (0, 10000], with
\* or without "$", separators and blanks; raises the range message for
\* r <= 0 and for r > 10000; raises the parse message for text that is not a
\* decimal; returns None for empty text and for blanks.
C28_RateParser ==
    Parsed("validate_hourly_rate") =>
        LET text == Val(arg).text
        IN Val(ret) =
               IF text.kind \in {"empty", "blank"} THEN Keep
               ELSE IF ~IsRateText(text)
                    THEN Raise("Unable to parse rate")
               ELSE IF text.a <= 0 \/ text.a > 1000000
                    THEN Raise("Rate must be between $0 and $10,000")
               ELSE Ok(text.a)

-----------------------------------------------------------------------------
(* C29 *)

\* the time of day a 12-hour reading stands for: 12 AM is 0, 12 PM is 12
TimeOf12(h, m, pm) ==
    [h |-> IF h = 12 THEN (IF pm THEN 12 ELSE 0)
           ELSE (IF pm THEN h + 12 ELSE h),
     m |-> m]

\* C29: parse_time_input returns the time of day of every 12-hour text
\* (hour 1-12, minute 0-59 or none, AM or PM in either case, with or without
\* a blank) and of every 24-hour text (hour 0-23, minute 0-59 or none); it
\* raises for an hour or a minute out of range, for text with seconds and
\* for any other text; it returns None for empty text.
C29_TimeParser ==
    Parsed("parse_time_input") =>
        LET text == Val(arg).text
        IN IF text.kind \in {"empty", "blank"} THEN Val(ret) = Keep
           ELSE IF /\ text.kind \in {"clock12", "hour12"}
                   /\ text.a \in 1..12
                   /\ text.b \in 0..59
                THEN Val(ret) = Ok(TimeOf12(text.a, text.b, text.pm))
           ELSE IF text.kind = "clock" /\ text.a \in 0..23 /\ text.b \in 0..59
                THEN Val(ret) = Ok([h |-> text.a, m |-> text.b])
           ELSE IF /\ IsPlain(text)
                   /\ text.a % 100 = 0
                   /\ (text.a \div 100) \in 0..23
                THEN Val(ret) = Ok([h |-> text.a \div 100, m |-> 0])
           ELSE Val(ret).tag = "error"

\* "12:05 am" was parsed: five past midnight
C29_Witness ==
    /\ Parsed("parse_time_input")
    /\ Val(arg).text = Clock12(12, 5, FALSE, TRUE, FALSE)
    /\ Val(ret) = Ok([h |-> 0, m |-> 5])

-----------------------------------------------------------------------------
(* C30 *)

\* the step reads the answer to the prompt of edit_meeting_details
Answers(prompt, text) ==
    /\ phase = IF prompt = "Start time" THEN "edit_time" ELSE "edit_duration"
    /\ arg' = Some(Command(prompt, NoNumber, 0, "", text))

\* the Meeting edit_meeting_details works on, before and after the step
EditedMeeting == MeetingAt(customers_with_meetings, edit_target)
EditedMeetingNext == MeetingAt(customers_with_meetings', edit_target)

\* the Meetings other than the edited one are as they were
OthersKept ==
    /\ SameShape
    /\ \A r \in MeetingRefs : ~IsEditTarget(r) => MeetingOfNext(r) = MeetingOf(r)

\* C30: at each of the two prompts of edit_meeting_details an empty answer
\* keeps the override, 'original' clears it, a value the parser accepts
\* becomes the override, and a value the parser rejects changes nothing and
\* the same prompt comes again: the session does not end. After the duration
\* prompt is_edited tells whether an override is set, so 'original' at both
\* prompts leaves the Meeting unedited.
C30_EditPrompts ==
    [][/\ \A text \in TimeInputs :
             Answers("Start time", text)
             => IF text = Empty
                THEN /\ UNCHANGED customers_with_meetings
                     /\ phase' = "edit_duration"
                ELSE IF text = Original
                THEN /\ EditedMeetingNext =
                            [EditedMeeting EXCEPT !.edited_start_time = None]
                     /\ OthersKept
                     /\ phase' = "edit_duration"
                ELSE IF parse_time_input(text).tag = "ok"
                THEN /\ EditedMeetingNext =
                            [EditedMeeting EXCEPT !.edited_start_time =
                                Some(parse_time_input(text).val)]
                     /\ OthersKept
                     /\ phase' = "edit_duration"
                ELSE /\ UNCHANGED <<customers_with_meetings, edit_target>>
                     /\ phase' = "edit_time"
       /\ \A text \in DurationInputs :
             Answers("Duration in hours", text)
             => LET set == [EditedMeeting EXCEPT !.edited_duration =
                               IF text = Empty THEN @
                               ELSE IF text = Original THEN None
                               ELSE Some(parse_duration_input(text).val)]
                IN IF text \in {Empty, Original}
                      \/ parse_duration_input(text).tag = "ok"
                   THEN /\ EditedMeetingNext =
                               [set EXCEPT !.is_edited =
                                   (IsSet(set.edited_start_time)
                                    \/ IsSet(set.edited_duration))]
                        /\ (text = Original /\ ~IsSet(EditedMeeting.edited_start_time))
                              => /\ ~EditedMeetingNext.is_edited
                                 /\ EditedMeetingNext.edited_start_time = None
                                 /\ EditedMeetingNext.edited_duration = None
                        /\ OthersKept
                        /\ phase' = "session"
                   ELSE /\ UNCHANGED <<customers_with_meetings, edit_target>>
                        /\ phase' = "edit_duration"]_vars

\* an edit answered 'original' at the duration prompt is over: after two
\* commands no Meeting has an override and none is marked edited
C30_Witness ==
    /\ phase = "session"
    /\ cmds = 2
    /\ arg = Some(Command("Duration in hours", NoNumber, 0, "", Original))
    /\ \A r \in MeetingRefs :
          /\ ~MeetingOf(r).is_edited
          /\ MeetingOf(r).edited_start_time = None
          /\ MeetingOf(r).edited_duration = None

-----------------------------------------------------------------------------
(* get_customer_hourly_rate on its own: SpecRate *)

\* every variable of a run but arg, before the run has done anything
InitIdle ==
    /\ phase = "start"
    /\ customers_with_meetings = <<>>
    /\ unassociated_meetings = <<>>
    /\ meeting_map = <<>>
    /\ unassociated_map = <<>>
    /\ edit_target = None
    /\ emit_cursor = 0
    /\ created_invoices = <<>>
    /\ calls = <<>>
    /\ answered = ""
    /\ rate_calls = <<>>
    /\ cmds = 0
    /\ run = 1
    /\ prev_emitted = {}
    /\ ret = None
    /\ include_all_meetings = FALSE
    /\ events = <<>>
    /\ cmd_limit = 0
    /\ lookup_down = {}
    /\ store = <<>>

\* values of the hourly_rate metadata key, in cents
MetadataValues == {0 - 100, 0, 1, 20000, MaxRate + 1}
\* what the metadata of a customer can hold under the key hourly_rate:
\* nothing, or any string
MetadataRates ==
    {None}
    \cup {Some(Decorated(v, prefix, commas, suffix, padded)) :
             v \in MetadataValues, prefix \in {"", "$"}, commas \in BOOLEAN,
             suffix \in {"", "h"}, padded \in BOOLEAN}
    \cup {Some(Num(v)) : v \in MetadataValues}
    \cup {Some(t) : t \in {Empty, Blank, Junk, NanText, InfText}}
\* --hourly-rate values
DefaultRates == {DefaultHourlyRate, 25000}

InitRate ==
    /\ InitIdle
    /\ arg \in {Some([customer |-> [CustB EXCEPT !.metadata = md],
                      default_rate |-> d]) :
                   md \in MetadataRates, d \in DefaultRates}

ApplyRate ==
    /\ ret = None
    /\ ret' = Some(get_customer_hourly_rate(Val(arg).customer,
                                            Val(arg).default_rate))
    /\ ParseFrame

SpecRate == InitRate /\ [][ApplyRate]_vars

-----------------------------------------------------------------------------
(* C31 *)

\* the stored attribute is there, is not empty and is a decimal number
\* (blanks around it allowed)
IsDecimalAttribute(md) ==
    /\ IsSet(md)
    /\ Val(md).kind \in {"num", "decimal"}
    /\ IsPlain(Val(md))

\* C31: get_customer_hourly_rate returns the stored hourly-rate attribute
\* when it is present, non-empty and a decimal number, and the supplied
\* default rate otherwise (absent, empty or not a decimal); it never raises.
C31_RateResolution ==
    ret # None =>
        LET md == Val(arg).customer.metadata
        IN /\ Val(ret).tag = "ok"
           /\ IF IsDecimalAttribute(md)
              THEN Val(ret) = Float(Val(md).a)
              ELSE Val(ret) = Float(Val(arg).default_rate)

-----------------------------------------------------------------------------
(* C32 *)

\* the step is the whole synopsis phase
SynopsisPhase == phase = "synopsis" /\ phase' = "confirm"

\* the prompts of the synopsis phase and the answers to them, once it is over
SynopsisPrompts == Val(arg).prompts
SynopsisAnswers == Val(arg).answers

\* the prompt shown for the Meeting r, as the phase names it
PromptFor(r) == <<customers_with_meetings[r[1]].customer_id, r[2]>>

\* C32: the synopsis phase prompts exactly once for each selected Meeting
\* and for no other, in customer order then list order; afterwards the
\* synopsis of every selected Meeting is the operator's text if it is not
\* empty and the meeting title otherwise, and every unselected Meeting, its
\* synopsis included, is as it was.
C32_SynopsisPrompts ==
    [][SynopsisPhase =>
        /\ Val(arg').cmd = "Synopsis"
        /\ \A r \in MeetingRefs :
              Cardinality({i \in DOMAIN SynopsisPrompts' :
                              SynopsisPrompts'[i] = PromptFor(r)})
                  = IF MeetingOf(r).selected THEN 1 ELSE 0
        /\ \A i \in DOMAIN SynopsisPrompts' :
              \E r \in MeetingRefs : SynopsisPrompts'[i] = PromptFor(r)
        /\ \A i, j \in DOMAIN SynopsisPrompts' :
              i < j =>
                LET ki == CwmIndex(customers_with_meetings, SynopsisPrompts'[i][1])
                    kj == CwmIndex(customers_with_meetings, SynopsisPrompts'[j][1])
                IN \/ ki < kj
                   \/ ki = kj /\ SynopsisPrompts'[i][2] < SynopsisPrompts'[j][2]
        /\ SameShape
        /\ UNCHANGED unassociated_meetings
        /\ \A r \in MeetingRefs :
              IF MeetingOf(r).selected
              THEN \E i \in DOMAIN SynopsisPrompts' :
                     /\ SynopsisPrompts'[i] = PromptFor(r)
                     /\ MeetingOfNext(r).synopsis =
                            IF SynopsisAnswers'[i] # ""
                            THEN SynopsisAnswers'[i]
                            ELSE MeetingOf(r).summary
              ELSE MeetingOfNext(r) = MeetingOf(r)]_vars

\* the synopsis phase is over: two customers were prompted for, one answer
\* was empty and one was not, and one Meeting was not selected
C32_Witness ==
    /\ phase = "confirm"
    /\ Val(arg).cmd = "Synopsis"
    /\ \E i, j \in DOMAIN SynopsisPrompts :
          /\ SynopsisPrompts[i][1] # SynopsisPrompts[j][1]
          /\ SynopsisAnswers[i] = ""
          /\ SynopsisAnswers[j] # ""
    /\ \E r \in MeetingRefs : ~MeetingOf(r).selected

-----------------------------------------------------------------------------
(* Duration, date and time of a Meeting on their own: SpecDerive *)

\* minutes of the day at which the events of this section start and end
StampMinutes == {0, 600, 607, 620, 840}
\* what the start and the end of an event can hold: timestamps with and
\* without an offset, dates, and text that is no timestamp
StampTexts ==
    {Stamp(d, m) : d \in {15, 16}, m \in StampMinutes}
    \cup {NaiveStamp(d, m) : d \in {15, 16}, m \in StampMinutes}
    \cup {DateStamp(d) : d \in {15, 16}}
    \cup {BadStamp(head, tail) : head \in {15, 0 - 1}, tail \in {0, 1}}

\* the argument is an event
InitDerive ==
    /\ InitIdle
    /\ arg \in {Some([Event1 EXCEPT !.start = Some(s), !.end = Some(e)]) :
                   s \in StampTexts, e \in StampTexts}

\* the meeting_info built for the event and its attendee
ApplyDerive ==
    /\ ret = None
    /\ ret' = Some(MeetingInfo(Val(arg), "alice@x.com", CustA, store,
                               lookup_down, Roster))
    /\ ParseFrame

SpecDerive == InitDerive /\ [][ApplyDerive]_vars

-----------------------------------------------------------------------------
(* C33 *)

\* the text is a timestamp or a date
Parseable(text) == text.form # "malformed"

\* minutes from the start to the end of the event of the argument
MinutesBetween ==
    (Val(Val(arg).end).day - Val(Val(arg).start).day) * 1440
    + Val(Val(arg).end).min - Val(Val(arg).start).min

\* q hundredths of an hour is the number of minutes rounded to 2 decimals of
\* an hour: no further from it than half a hundredth
RoundsToHundredths(q, minutes) == 2 * Abs(60 * q - 100 * minutes) <= 60

\* C33 as stated: when the start or the end cannot be parsed the Meeting
\* has base duration 1.0, the first 10 characters of the start as its date
\* and the placeholder as its time; when both can, the base duration is
\* (end - start) in hours rounded to 2 decimals.
C33_DerivationFallsBack ==
    ret # None =>
        LET start_time == Val(Val(arg).start)
            end_time == Val(Val(arg).end)
        IN IF ~Parseable(start_time) \/ ~Parseable(end_time)
           THEN /\ Val(ret).duration = 100
                /\ Val(ret).date = start_time.day
                /\ Val(ret).time = UnknownTime
           ELSE RoundsToHundredths(Val(ret).duration, MinutesBetween)

\* both texts carry a UTC offset or neither does
SameAwareness(start_time, end_time) ==
    (start_time.form = "datetime") = (end_time.form = "datetime")

\* C33, amended: the base duration is 1.0 when the start or the end cannot
\* be parsed or only one of them has a UTC offset, and (end - start) in hours
\* rounded to 2 decimals otherwise; the date and the time are those of the
\* start when the start can be parsed, whatever the end is, and the first 10
\* characters of the start with the placeholder time when it cannot.
C33_DerivationFallsBackByStart ==
    ret # None =>
        LET start_time == Val(Val(arg).start)
            end_time == Val(Val(arg).end)
        IN /\ IF /\ Parseable(start_time)
                 /\ Parseable(end_time)
                 /\ SameAwareness(start_time, end_time)
              THEN RoundsToHundredths(Val(ret).duration, MinutesBetween)
              ELSE Val(ret).duration = 100
           /\ Val(ret).date = start_time.day
           /\ IF Parseable(start_time)
              THEN Val(ret).time = FormatTime12([h |-> start_time.min \div 60,
                                                m |-> start_time.min % 60])
              ELSE Val(ret).time = UnknownTime

\* the Meeting of an event whose start is a timestamp and whose end is not:
\* one hour, at the time of the start
C33_Witness ==
    /\ ret # None
    /\ Parseable(Val(Val(arg).start))
    /\ ~Parseable(Val(Val(arg).end))
    /\ Val(ret).duration = 100
    /\ Val(ret).time # UnknownTime

-----------------------------------------------------------------------------
(* get_stripe_customers on its own: SpecCustomers *)

\* the customers of the Stripe account, in the order Customer.list gives
\* them: row k has the id <<"cus", k>>, an e-mail address or none, and a
\* name or none
StripeRow(k, email) ==
    [id |-> <<"cus", k>>, email |-> email,
     name |-> IF email = Some("bob@x.com") THEN None ELSE Some("Alice"),
     metadata |-> None]
StripeAccounts ==
    UNION {{[k \in 1..n |-> StripeRow(k, emails[k])] :
               emails \in [1..n -> {None, Some("Alice@X.com"), Some("bob@x.com")}]} :
           n \in 0..MaxStripeCustomers}

\* stripe.Customer.list(limit, starting_after): the rows after the one with
\* that id, a page of them, and whether more follow
CustomerList(account, limit, starting_after) ==
    LET from == IF starting_after = None THEN 0
                ELSE CHOOSE k \in DOMAIN account :
                         account[k].id = Val(starting_after)
        upto == Min(from + limit, Len(account))
    IN [data |-> SubSeq(account, from + 1, upto),
        has_more |-> upto < Len(account)]

\* an entry of the roster that keeps the address as Stripe has it
CustomerEntryAsIs(customer) ==
    [id |-> customer.id,
     email |-> Val(customer.email),
     name |-> IF IsSet(customer.name) THEN Val(customer.name) ELSE "Unknown",
     metadata |-> customer.metadata]

\* lines 357-363
CustomerEntry(customer) ==
    [id |-> customer.id,
     email |-> Lower(Val(customer.email)),
     name |-> IF IsSet(customer.name) THEN Val(customer.name) ELSE "Unknown",
     metadata |-> customer.metadata]

\* `for customer in response.data: if customer.email: customers.append(...)`
RECURSIVE AppendCustomers(_, _, _)
AppendCustomers(customers, data, k) ==
    IF k > Len(data) THEN customers
    ELSE AppendCustomers(
             IF IsSet(data[k].email) /\ Val(data[k].email) # ""
             THEN Append(customers, CustomerEntry(data[k]))
             ELSE customers,
             data, k + 1)

\* what the functions of this section leave alone
FunctionFrame ==
    UNCHANGED <<phase, config, store, customers_with_meetings,
                unassociated_meetings, meeting_map, unassociated_map,
                edit_target, emission, rate_calls, cmds, runs>>

\* the argument holds the account, which request fails (0 for none), the
\* locals of get_stripe_customers and the requests it has made
InitCustomers ==
    /\ InitIdle
    /\ arg \in {Some([account |-> a, fail_at |-> f, has_more |-> TRUE,
                      starting_after |-> None, customers |-> <<>>,
                      requests |-> <<>>]) :
                   a \in StripeAccounts, f \in 0..3}

\* one turn of `while has_more`: a request, and the page it returns
FetchPage ==
    /\ ret = None
    /\ Val(arg).has_more
    /\ LET l == Val(arg)
           params == [limit |-> PageLimit, starting_after |-> l.starting_after]
           response == CustomerList(l.account, params.limit,
                                    params.starting_after)
       IN IF Len(l.requests) + 1 = l.fail_at
          THEN \* the request raises: `except Exception: return []`
               /\ arg' = Some([l EXCEPT !.requests = Append(@, params)])
               /\ ret' = Some(<<>>)
          ELSE IF response.has_more /\ response.data = <<>>
          THEN \* response.data[-1] raises IndexError
               /\ arg' = Some([l EXCEPT !.requests = Append(@, params)])
               /\ ret' = Some(<<>>)
          ELSE /\ arg' = Some([l EXCEPT
                      !.requests = Append(@, params),
                      !.customers = AppendCustomers(@, response.data, 1),
                      !.has_more = response.has_more,
                      !.starting_after =
                          IF response.has_more
                          THEN Some(response.data[Len(response.data)].id)
                          ELSE @])
               /\ UNCHANGED ret
    /\ FunctionFrame

\* the loop is left: `return customers`
FetchReturn ==
    /\ ret = None
    /\ ~Val(arg).has_more
    /\ ret' = Some(Val(arg).customers)
    /\ UNCHANGED arg
    /\ FunctionFrame

NextCustomers == FetchPage \/ FetchReturn

SpecCustomers == InitCustomers /\ [][NextCustomers]_vars

\* the function keeps running: no step of it waits for anything but the
\* answer of Stripe, which comes or raises
SpecCustomersFair == SpecCustomers /\ WF_vars(NextCustomers)

-----------------------------------------------------------------------------
(* C34 *)

\* the rows of the account that have an e-mail address, in account order,
\* with the address in lower case
RECURSIVE WithEmailFrom(_, _)
WithEmailFrom(account, k) ==
    IF k > Len(account) THEN <<>>
    ELSE IF IsSet(account[k].email)
         THEN <<[id |-> account[k].id, email |-> Lower(Val(account[k].email))]>>
              \o WithEmailFrom(account, k + 1)
         ELSE WithEmailFrom(account, k + 1)

\* the pages the account has at PageLimit rows a page: one, if it is empty
PagesOf(account) ==
    IF Len(account) = 0 THEN 1
    ELSE (Len(account) + PageLimit - 1) \div PageLimit

\* one of the requests made so far failed
RequestFailed == Val(arg).fail_at \in 1..Len(Val(arg).requests)

\* the requests made so far ask for the pages in order, the first without a
\* cursor and each later one after the last row of the page before it, and
\* none is made past the last page or past a failure; the result, once
\* there is one, is empty after a failure and the rows with an address
\* otherwise
PagesInOrder ==
    LET l == Val(arg)
    IN /\ \A n \in DOMAIN l.requests :
             /\ l.requests[n].starting_after =
                    IF n = 1 THEN None
                    ELSE Some(l.account[(n - 1) * PageLimit].id)
             /\ n <= PagesOf(l.account)
             /\ l.fail_at \notin 1..(n - 1)
       /\ ret # None =>
             IF RequestFailed THEN Val(ret) = <<>>
             ELSE /\ Len(l.requests) = PagesOf(l.account)
                  /\ [k \in DOMAIN Val(ret) |->
                         [id |-> Val(ret)[k].id, email |-> Val(ret)[k].email]]
                        = WithEmailFrom(l.account, 1)

\* C34: get_stripe_customers terminates; with no failing request it returns
\* exactly the customers that have an email, from all pages in page order,
\* emails lower-cased, having asked for the first page without a cursor, for
\* each further page with the id of the last customer of the page before,
\* and for no page after the first whose has_more is false; if a request
\* fails it returns the empty list.
C34_PagesAllCustomers == []PagesInOrder /\ <>(ret # None)

\* more than one page was asked for and none failed; a customer without an address
\* was left out and one with capitals in the address was returned
C34_Witness ==
    /\ ret # None
    /\ ~RequestFailed
    /\ Len(Val(arg).requests) >= 2
    /\ Len(Val(ret)) < Len(Val(arg).account)
    /\ \E k \in DOMAIN Val(ret) : Val(ret)[k].email = "alice@x.com"

-----------------------------------------------------------------------------
(* The constructor and _get_calendar_service: SpecAuth *)

\* input(...).strip().lower() on the answers of the model
StripLower(text) ==
    IF text = "Y" THEN "y"
    ELSE IF text = " yes " THEN "yes"
    ELSE IF text = "No" THEN "no"
    ELSE text
AuthInputs == {"y", "Y", " yes ", "n", "No", "maybe", ""}

\* a prompt that takes every answer but n/no for a yes
AuthChoiceLax(choice) ==
    IF choice \in {"n", "no"} THEN "cancel" ELSE "remove"

\* lines 101-115: what the answer to the prompt leads to
AuthChoice(choice) ==
    IF choice \in {"y", "yes"} THEN "remove"
    ELSE IF choice \in {"n", "no"} THEN "cancel"
    ELSE "again"

\* the argument holds the token file ("absent", "stored" by an earlier run,
\* "unreadable", or "saved" by this one), the credentials stored in it
\* ("valid", "expired" with a refresh token, "stale" for any other kind that
\* is not valid), the local creds, the last answer read, the answers read so
\* far and what became of os.remove
InitAuth ==
    /\ InitIdle
    /\ arg \in {Some([token |-> t, stored |-> k, creds |-> "none",
                      answer |-> "", prompts |-> 0, removal |-> "none"]) :
                   t \in {"absent", "stored", "unreadable"},
                   k \in {"valid", "expired", "stale"}}

AuthFrame ==
    UNCHANGED <<config, store, customers_with_meetings,
                unassociated_meetings, meeting_map, unassociated_map,
                edit_target, emission, rate_calls, cmds, runs>>

\* lines 79-89: the token is loaded and the credentials are looked at
AuthLoad ==
    /\ phase = "start"
    /\ LET creds == IF Val(arg).token = "stored" THEN Val(arg).stored
                    ELSE "none"
       IN /\ arg' = Some([Val(arg) EXCEPT !.creds = creds])
          /\ phase' = IF creds = "valid" THEN "auth_build"
                      ELSE IF creds = "expired" THEN "auth_refresh"
                      ELSE "auth_fresh"
    /\ UNCHANGED ret
    /\ AuthFrame

\* lines 90-93: creds.refresh(Request()) returns or raises
AuthRefresh ==
    /\ phase = "auth_refresh"
    /\ \E ok \in BOOLEAN :
         IF ok
         THEN /\ arg' = Some([Val(arg) EXCEPT !.creds = "valid"])
              /\ phase' = "auth_save"
         ELSE /\ phase' = "auth_prompt"
              /\ UNCHANGED arg
    /\ UNCHANGED ret
    /\ AuthFrame

\* lines 99-117: one answer to "Would you like to remove the expired token
\* and re-authenticate? (y/n): "; os.remove succeeds or raises
AuthPrompt ==
    /\ phase = "auth_prompt"
    /\ Val(arg).prompts < MaxAuthPrompts
    /\ \E text \in AuthInputs, removed \in BOOLEAN :
         LET choice == StripLower(text)
             read == [Val(arg) EXCEPT !.answer = choice,
                                      !.prompts = @ + 1]
         IN IF AuthChoice(choice) = "remove"
            THEN IF removed
                 THEN /\ arg' = Some([read EXCEPT !.token = "absent",
                                                  !.creds = "none",
                                                  !.removal = "done"])
                      /\ phase' = "auth_fresh"
                      /\ UNCHANGED ret
                 ELSE /\ arg' = Some([read EXCEPT !.removal = "failed"])
                      /\ phase' = "auth_returned"
                      /\ ret' = Some("no service")
            ELSE IF AuthChoice(choice) = "cancel"
            THEN /\ arg' = Some(read)
                 /\ phase' = "auth_returned"
                 /\ ret' = Some("no service")
            ELSE /\ arg' = Some(read)
                 /\ UNCHANGED <<phase, ret>>
    /\ AuthFrame

\* lines 119-130: InstalledAppFlow, which returns credentials or raises
AuthFresh ==
    /\ phase = "auth_fresh"
    /\ \E ok \in BOOLEAN :
         IF ok
         THEN /\ arg' = Some([Val(arg) EXCEPT !.creds = "valid"])
              /\ phase' = "auth_save"
              /\ UNCHANGED ret
         ELSE /\ phase' = "auth_returned"
              /\ ret' = Some("no service")
              /\ UNCHANGED arg
    /\ AuthFrame

\* lines 132-139: the token file is written, or the write raises
AuthSave ==
    /\ phase = "auth_save"
    /\ \E ok \in BOOLEAN :
         arg' = Some([Val(arg) EXCEPT !.token = IF ok THEN "saved" ELSE @])
    /\ phase' = "auth_build"
    /\ UNCHANGED ret
    /\ AuthFrame

\* lines 141-146: build(...) returns the service or raises
AuthBuild ==
    /\ phase = "auth_build"
    /\ \E ok \in BOOLEAN :
         ret' = Some(IF ok THEN "service" ELSE "no service")
    /\ phase' = "auth_returned"
    /\ UNCHANGED arg
    /\ AuthFrame

\* lines 71-73: __init__ raises when the service is None
Construct ==
    /\ phase = "auth_returned"
    /\ phase' = IF Val(ret) = "no service" THEN "raised" ELSE "constructed"
    /\ UNCHANGED <<arg, ret>>
    /\ AuthFrame

NextAuth ==
    \/ AuthLoad
    \/ AuthRefresh
    \/ AuthPrompt
    \/ AuthFresh
    \/ AuthSave
    \/ AuthBuild
    \/ Construct

SpecAuth == InitAuth /\ [][NextAuth]_vars

-----------------------------------------------------------------------------
(* C35 *)

\* the step reads an answer at the prompt that follows a failed refresh
AuthAnswered == phase = "auth_prompt" /\ Val(arg').prompts = Val(arg).prompts + 1

\* the step removes the token file
TokenRemoved == Val(arg).token # "absent" /\ Val(arg').token = "absent"

\* C35: after a failed refresh the token file is deleted only in the step
\* that reads the answer y or yes, and fresh authentication starts next; on
\* n or no the flow returns no service and the file stays; any other answer
\* leads to the prompt again; when the file cannot be deleted the flow
\* returns no service; and the constructor raises whenever the flow has
\* returned no service.
C35_TokenRemovedOnYesOnly ==
    [][/\ TokenRemoved =>
             /\ AuthAnswered
             /\ Val(arg').answer \in {"y", "yes"}
             /\ phase' = "auth_fresh"
             /\ Val(arg').creds = "none"
             /\ ret' = None
       /\ AuthAnswered =>
             IF Val(arg').answer \in {"y", "yes"}
             THEN \/ TokenRemoved
                  \/ /\ Val(arg').removal = "failed"
                     /\ Val(arg').token = Val(arg).token
                     /\ phase' = "auth_returned"
                     /\ ret' = Some("no service")
             ELSE IF Val(arg').answer \in {"n", "no"}
             THEN /\ Val(arg').token = Val(arg).token
                  /\ phase' = "auth_returned"
                  /\ ret' = Some("no service")
             ELSE /\ Val(arg').token = Val(arg).token
                  /\ phase' = "auth_prompt"
                  /\ ret' = None
       /\ phase = "auth_returned" =>
             phase' = IF ret = Some("no service") THEN "raised"
                      ELSE "constructed"
       /\ phase' = "constructed" => ret' = Some("service")]_vars

\* the constructor has raised: the operator was asked more than once, the
\* token file was removed on the yes, and no service came of the fresh
\* authentication
C35_Witness ==
    /\ phase = "raised"
    /\ Val(arg).prompts >= 2
    /\ Val(arg).removal = "done"
    /\ Val(arg).token = "absent"

-----------------------------------------------------------------------------
(* C36 *)

\* the setrate calls for the customer that Stripe accepted
AcceptedRateCalls(customer_id) ==
    {i \in DOMAIN rate_calls :
        rate_calls[i].customer = customer_id /\ rate_calls[i].ok}

\* the rate of the last of them
LastSetRate(customer_id) ==
    rate_calls[CHOOSE i \in AcceptedRateCalls(customer_id) :
                  \A j \in AcceptedRateCalls(customer_id) : j <= i].rate

\* C36: once a setrate command has succeeded for a customer, the listing,
\* the confirmation total and every emitted line item of the session use
\* the new rate for the customer's meetings that have no custom rate.
C36_SetRateTakesEffect ==
    /\ \A r \in MeetingRefs :
          (/\ AcceptedRateCalls(CustomerOf(r).id) # {}
           /\ MeetingOf(r).custom_rate = None)
          => /\ ListingRate(MeetingOf(r), CustomerDefaultRate(r))
                    = LastSetRate(CustomerOf(r).id)
             /\ ConfirmationRate(MeetingOf(r), CustomerDefaultRate(r))
                    = LastSetRate(CustomerOf(r).id)
    /\ \A j \in ItemCalls :
          (/\ AcceptedRateCalls(calls[j].customer) # {}
           /\ MeetingOf(CallRef(j)).custom_rate = None)
          => calls[j].amount =
                 MinorUnits(EmissionDuration(MeetingOf(CallRef(j)))
                            * LastSetRate(calls[j].customer))

-----------------------------------------------------------------------------
(* C37 *)

\* C37: in every state of a session no customer's meeting list holds two
\* Meetings with the same identifier, whether they came from reconciliation
\* or from assign commands.
C37_NoDuplicateIds ==
    \A k \in DOMAIN customers_with_meetings :
        \A i, j \in DOMAIN customers_with_meetings[k].meetings :
            i # j => customers_with_meetings[k].meetings[i].id
                         # customers_with_meetings[k].meetings[j].id

-----------------------------------------------------------------------------
(* From an event and a customer to the line item: SpecLine *)

\* the events of one day that end no earlier than they start
LineEvents ==
    {[Event1 EXCEPT !.start = Some(Stamp(15, t[1])),
                    !.end = Some(Stamp(15, t[2]))] :
        t \in {u \in StampMinutes \X StampMinutes : u[1] <= u[2]}}

\* the stored rates that float() takes for a finite number or refuses
FiniteMetadataRates ==
    {md \in MetadataRates :
        IsSet(md) => Val(md).kind \notin {"nan", "inf"}}

\* the argument is an event and the customer that attends it
InitLine ==
    /\ InitIdle
    /\ arg \in {Some([event |-> ev,
                      customer |-> [CustA EXCEPT !.metadata = md]]) :
                   ev \in LineEvents, md \in FiniteMetadataRates}

\* the Meeting reconciliation builds, selected as it is when unbilled, and
\* the InvoiceItem.create call Step 6 makes for it
ApplyLine ==
    /\ ret = None
    /\ LET meeting == MeetingInfo(Val(arg).event, "alice@x.com",
                                  Val(arg).customer, store, lookup_down,
                                  <<Val(arg).customer>>)
           hourly_rate == get_customer_hourly_rate(Val(arg).customer,
                                                   DefaultHourlyRate).val
       IN /\ meeting.selected
          /\ ret' = Some([meeting |-> meeting,
                          hourly_rate |-> hourly_rate,
                          call |-> ItemCall("cus_A", 1, meeting, hourly_rate,
                                            TRUE)])
    /\ ParseFrame

SpecLine == InitLine /\ [][ApplyLine]_vars

-----------------------------------------------------------------------------
(* C38 *)

\* C38: every line item emitted has a strictly positive amount: for the
\* Meeting of every event and every stored rate, the effective duration is
\* greater than 0, the effective rate is greater than 0 and the minor-unit
\* integer sent is at least 1.
C38_AmountPositive ==
    ret # None =>
        /\ effective_duration(Val(ret).meeting) > 0
        /\ effective_rate(Val(ret).meeting, Val(ret).hourly_rate) > 0
        /\ Val(ret).call.amount >= 1

-----------------------------------------------------------------------------
(* C39 *)

\* The session assigns an override in three places, each time the value its
\* parser returned for a text that is not empty: meeting['edited_start_time']
\* = parsed_time (line 587), meeting['edited_duration'] = parsed_duration
\* (line 609) and meeting['custom_rate'] = rate (line 875).

\* the parser fn returned a value, which the session stores as the override
Stored(fn) == Parsed(fn) /\ Val(ret).tag = "ok"

\* C39: every override the session stores is in range: an edited duration
\* in (0, 24], a custom rate in (0, 10000], an edited start time with hour
\* 0-23 and minute 0-59.
C39_OverridesInRange ==
    /\ Stored("parse_duration_input") =>
          /\ Val(ret) \notin {FloatNaN, FloatInf}
          /\ Val(ret).val > 0
          /\ Val(ret).val <= MaxDuration
    /\ Stored("validate_hourly_rate") =>
          /\ Val(ret) \notin {FloatNaN, FloatInf}
          /\ Val(ret).val > 0
          /\ Val(ret).val <= MaxRate
    /\ Stored("parse_time_input") =>
          /\ Val(ret).val.h \in 0..23
          /\ Val(ret).val.m \in 0..59

-----------------------------------------------------------------------------
(* C40 *)

\* C40: the session leaves its command loop only on 'continue' or 'quit':
\* after every other command line it is at the prompt again, or, for an edit
\* or time command, at the prompts of the edit, which lead back to the
\* prompt of the session.
C40_LoopLeftOnContinueOrQuit ==
    [][/\ (phase = "session" /\ phase' \notin {"session", "edit_time"})
           => Val(arg').cmd \in {"continue", "quit"}
       /\ (phase = "session" /\ phase' = "edit_time")
           => Val(arg').cmd \in {"edit", "time"}
       /\ phase \in {"edit_time", "edit_duration"}
           => phase' \in {"edit_time", "edit_duration", "session"}]_vars

====
